---- MODULE Spec2Model ----
(***************************************************************************)
(* A model of the scraping heuristics and the fast-then-browser fallback   *)
(* of the Python_Scrap repository.                                         *)
(*                                                                         *)
(* Text is a sequence of one-character strings, so that the regular        *)
(* expressions and substring tests of the source are computed on the       *)
(* characters, as Python's re module computes them.  An HTML document is   *)
(* its element list (what BeautifulSoup finds) together with the source    *)
(* text that serialises it (what re.search is run on).                     *)
(***************************************************************************)
EXTENDS Integers, Sequences, FiniteSets, TLC

VARIABLES quick, smart, detect, hmc, tbl, spider, pipe, server, errh, proxy, dup, cli, scr, cmp

vars == <<quick, smart, detect, hmc, tbl, spider, pipe, server, errh, proxy, dup, cli, scr, cmp>>

(***************************************************************************)
(* Characters and strings                                                  *)
(***************************************************************************)
Digits == {"0", "1", "2", "3", "4", "5", "6", "7", "8", "9"}

UpperCase == <<"A", "B", "C", "D", "E", "F", "G", "H", "I", "J", "K", "L", "M",
               "N", "O", "P", "Q", "R", "S", "T", "U", "V", "W", "X", "Y", "Z">>

LowerCase == <<"a", "b", "c", "d", "e", "f", "g", "h", "i", "j", "k", "l", "m",
               "n", "o", "p", "q", "r", "s", "t", "u", "v", "w", "x", "y", "z">>

Letters == {UpperCase[i] : i \in 1..26} \cup {LowerCase[i] : i \in 1..26}

\* \w of Python's re (ASCII part)
WordChars == Letters \cup Digits \cup {"_"}

\* str.lower() on one character
LowerChar(c) ==
    IF \E i \in 1..26 : UpperCase[i] = c
    THEN LowerCase[CHOOSE i \in 1..26 : UpperCase[i] = c]
    ELSE c

\* str.lower()
Lower(s) == [i \in 1..Len(s) |-> LowerChar(s[i])]

RECURSIVE Concat(_)
\* ''.join(parts)
Concat(parts) ==
    IF parts = <<>> THEN <<>> ELSE Head(parts) \o Concat(Tail(parts))

RECURSIVE Join(_, _)
\* sep.join(parts)
Join(sep, parts) ==
    IF parts = <<>> THEN <<>>
    ELSE IF Len(parts) = 1 THEN parts[1]
    ELSE parts[1] \o sep \o Join(sep, Tail(parts))

\* sub == s[i : i + len(sub)]
OccursAt(sub, s, i) ==
    /\ i + Len(sub) - 1 <= Len(s)
    /\ \A k \in 1..Len(sub) : s[i + k - 1] = sub[k]

\* `sub in s`
Contains(s, sub) == \E i \in 1..(Len(s) + 1) : OccursAt(sub, s, i)

\* s.startswith(prefix)
StartsWith(s, prefix) == OccursAt(prefix, s, 1)

\* s.endswith(suffix)
EndsWith(s, suffix) ==
    /\ Len(suffix) <= Len(s)
    /\ OccursAt(suffix, s, Len(s) - Len(suffix) + 1)

RECURSIVE SeqSum(_)
SeqSum(ns) == IF ns = <<>> THEN 0 ELSE Head(ns) + SeqSum(Tail(ns))

SetMax(S) == CHOOSE x \in S : \A y \in S : y <= x

(***************************************************************************)
(* Regular expressions: a pattern is a sequence of items                   *)
(*   [kind |-> "cls", cs, lo, hi]   a character class repeated lo..hi      *)
(*   [kind |-> "any", lo, hi]       . under re.DOTALL repeated lo..hi      *)
(*   [kind |-> "wb"]                \b                                     *)
(*   [kind |-> "grp", sub, lo, hi]  a group repeated lo..hi                *)
(* hi = -1 stands for no upper limit.                                      *)
(***************************************************************************)
Ch(c) == [kind |-> "cls", cs |-> {c}, lo |-> 1, hi |-> 1]
Cls(S, lo, hi) == [kind |-> "cls", cs |-> S, lo |-> lo, hi |-> hi]
AnyStar == [kind |-> "any", lo |-> 0, hi |-> -1]
WordBoundary == [kind |-> "wb"]
Group(sub, lo, hi) == [kind |-> "grp", sub |-> sub, lo |-> lo, hi |-> hi]

\* a literal string as a pattern
Lit(s) == [i \in 1..Len(s) |-> Ch(s[i])]

\* the pattern under re.IGNORECASE, to be run on the lower-cased subject
\* (used for patterns whose classes hold no letters besides literals)
RECURSIVE LowerPat(_)
LowerPat(pat) ==
    [i \in 1..Len(pat) |->
        IF pat[i].kind = "cls"
        THEN [pat[i] EXCEPT !.cs = {LowerChar(c) : c \in pat[i].cs}]
        ELSE IF pat[i].kind = "grp"
        THEN [pat[i] EXCEPT !.sub = LowerPat(pat[i].sub)]
        ELSE pat[i]]

IsWordAt(s, i) == i >= 1 /\ i <= Len(s) /\ s[i] \in WordChars

\* \b before position i
AtWordBoundary(s, i) == IsWordAt(s, i - 1) # IsWordAt(s, i)

RECURSIVE ClassRun(_, _, _, _)
\* how many characters of the class follow position i, n of them counted
ClassRun(it, s, i, n) ==
    IF i > Len(s) \/ (it.hi # -1 /\ n >= it.hi) \/ s[i] \notin it.cs
    THEN n
    ELSE ClassRun(it, s, i + 1, n + 1)

\* how many characters from position i the item can take (at most hi)
RunLen(it, s, i) ==
    IF it.kind = "any"
    THEN LET rest == Len(s) - i + 1
         IN  IF it.hi # -1 /\ it.hi < rest THEN it.hi ELSE rest
    ELSE ClassRun(it, s, i, 0)

RECURSIVE ReEnds(_, _, _, _)
RECURSIVE GroupEnds(_, _, _, _)

\* the positions where a match of pat[k..] that begins at position i can end
ReEnds(pat, k, s, i) ==
    IF k > Len(pat) THEN {i}
    ELSE LET it == pat[k] IN
         IF it.kind = "wb"
         THEN IF AtWordBoundary(s, i) THEN ReEnds(pat, k + 1, s, i) ELSE {}
         ELSE IF it.kind = "grp"
         THEN UNION {ReEnds(pat, k + 1, s, j) : j \in GroupEnds(it, s, {i}, 0)}
         ELSE UNION {ReEnds(pat, k + 1, s, i + r) : r \in it.lo..RunLen(it, s, i)}

\* the positions reached after n, n+1, ... repetitions of the group, given
\* the set P reached after n of them
GroupEnds(it, s, P, n) ==
    LET next == UNION {ReEnds(it.sub, 1, s, p) : p \in P}
        here == IF n >= it.lo THEN P ELSE {}
    IN  IF next = {} \/ (it.hi # -1 /\ n >= it.hi)
        THEN here
        ELSE here \cup GroupEnds(it, s, next, n + 1)

\* a match of pat begins at position i
ReMatchAt(pat, s, i) == ReEnds(pat, 1, s, i) # {}

\* re.search(pat, s) is not None
ReSearch(pat, s) == \E i \in 1..(Len(s) + 1) : ReMatchAt(pat, s, i)

\* re.search of a pattern given as alternatives a|b
ReSearchAlt(alts, s) == \E a \in 1..Len(alts) : ReSearch(alts[a], s)

RECURSIVE FindallFrom(_, _, _, _)
\* the matches re.findall takes from position i on, starts being the
\* positions where a match can begin: the leftmost, then the leftmost after
\* its end.  Every quantifier of the patterns below is greedy and none
\* matches the empty string, so the match taken at a position is the longest.
FindallFrom(pat, s, starts, i) ==
    LET ahead == {j \in starts : j >= i} IN
    IF ahead = {} THEN 0
    ELSE LET j == CHOOSE x \in ahead : \A y \in ahead : x <= y
         IN  1 + FindallFrom(pat, s, starts, SetMax(ReEnds(pat, 1, s, j)))

\* len(re.findall(pat, s))
FindallCount(pat, s) ==
    FindallFrom(pat, s, {j \in 1..Len(s) : ReMatchAt(pat, s, j)}, 1)

(***************************************************************************)
(* HTML documents.  A document is the list of its elements in document     *)
(* order; an element has a tag, a class attribute (empty when absent), its *)
(* own text, and may sit inside an HTML comment, where the parser does not *)
(* see it but the source text still holds its markup.                      *)
(***************************************************************************)
Elem(tag, cls, text, comment) ==
    [tag |-> tag, cls |-> cls, text |-> text, comment |-> comment]

\* the markup of one element
ElemSource(e) ==
    Concat(<<IF e.comment THEN <<"<", "!", "-", "-">> ELSE <<>>,
             <<"<">>, e.tag,
             IF e.cls = <<>> THEN <<>> ELSE <<" ", "c", "l", "a", "s", "s", "=", "\"">> \o e.cls \o <<"\"">>,
             <<">">>, e.text, <<"<", "/">>, e.tag, <<">">>,
             IF e.comment THEN <<"-", "-", ">">> ELSE <<>> >>)

\* html_content: the source text of the document, one element per line
HtmlSource(page) ==
    Join(<<"\n">>, [i \in 1..Len(page) |-> ElemSource(page[i])])

\* BeautifulSoup(html_content, 'html.parser'): the elements the parser sees
Soup(page) == SelectSeq(page, LAMBDA e : ~e.comment)

\* soup.find_all(tags)
FindAll(soup, tags) == SelectSeq(soup, LAMBDA e : e.tag \in tags)

\* soup.get_text(): the text nodes in document order; the line breaks
\* between the elements are text nodes too
GetText(page) ==
    Join(<<"\n">>, [i \in 1..Len(page) |-> IF page[i].comment THEN <<>> ELSE page[i].text])

WhiteSpace == {" ", "\n", "\t"}

RECURSIVE LStrip(_)
LStrip(s) == IF s # <<>> /\ Head(s) \in WhiteSpace THEN LStrip(Tail(s)) ELSE s

RECURSIVE RStrip(_)
RStrip(s) ==
    IF s # <<>> /\ s[Len(s)] \in WhiteSpace THEN RStrip(SubSeq(s, 1, Len(s) - 1)) ELSE s

\* element.get_text(strip=True) of an element holding one text node
GetTextStrip(e) == RStrip(LStrip(e.text))

\* A value that is either None or an HTML string (given by its document)
NoneHtml == [isNone |-> TRUE, page |-> <<>>]
Html(page) == [isNone |-> FALSE, page |-> page]

\* Python truth of an html_content value: None and '' are false
Truthy(h) == ~h.isNone /\ h.page # <<>>

(***************************************************************************)
(* quick_scraper.has_meaningful_content                                    *)
(***************************************************************************)
\* dividend_value_pattern = r'\b0\.[5-9]\d\b|\b[1-9]\.\d{2}\b'
dividend_value_pattern ==
    << <<WordBoundary, Ch("0"), Ch("."), Cls({"5", "6", "7", "8", "9"}, 1, 1),
         Cls(Digits, 1, 1), WordBoundary>>,
       <<WordBoundary, Cls(Digits \ {"0"}, 1, 1), Ch("."), Cls(Digits, 2, 2),
         WordBoundary>> >>

\* specific_dividend_patterns: r'Dividend Per Share', r'0\.51.*0\.56.*0\.62',
\* r'<td.*?>0\.\d{2}</td>' (a lazy .*? finds a match exactly when .* does)
specific_dividend_patterns ==
    << Lit(<<"D", "i", "v", "i", "d", "e", "n", "d", " ", "P", "e", "r", " ", "S", "h", "a", "r", "e">>),
       Lit(<<"0", ".", "5", "1">>) \o <<AnyStar>> \o Lit(<<"0", ".", "5", "6">>) \o <<AnyStar>> \o Lit(<<"0", ".", "6", "2">>),
       Lit(<<"<", "t", "d">>) \o <<AnyStar>> \o Lit(<<">", "0", ".">>) \o <<Cls(Digits, 2, 2)>> \o Lit(<<"<", "/", "t", "d", ">">>) >>

\* the cells whose stripped text holds a dividend value
dividend_values_found(page) ==
    Len(SelectSeq(FindAll(Soup(page), {<<"t", "d">>, <<"t", "h">>}),
                  LAMBDA cell : ReSearchAlt(dividend_value_pattern, GetTextStrip(cell))))

\* the patterns found in html_content under re.IGNORECASE | re.DOTALL
pattern_matches(page) ==
    Len(SelectSeq(specific_dividend_patterns,
                  LAMBDA pat : ReSearch(LowerPat(pat), Lower(HtmlSource(page)))))

hmc_score(page) == dividend_values_found(page) * 3 + pattern_matches(page) * 5

has_meaningful_content(h) ==
    IF ~Truthy(h) THEN FALSE ELSE hmc_score(h.page) > 10

(***************************************************************************)
(* smart_scraper.detect_financial_data                                     *)
(***************************************************************************)
\* dividend_patterns, each with its source string and its compiled form
dividend_patterns ==
    << [src |-> <<"\\", "$", "?", "\\", "d", "+", "\\", ".", "\\", "d", "{", "2", ",", "3", "}">>,
        re  |-> <<Cls({"$"}, 0, 1), Cls(Digits, 1, -1), Ch("."), Cls(Digits, 2, 3)>>],
       [src |-> <<"d", "i", "v", "i", "d", "e", "n", "d">>, re |-> Lit(<<"d", "i", "v", "i", "d", "e", "n", "d">>)],
       [src |-> <<"y", "i", "e", "l", "d">>, re |-> Lit(<<"y", "i", "e", "l", "d">>)],
       [src |-> <<"p", "a", "y", "o", "u", "t">>, re |-> Lit(<<"p", "a", "y", "o", "u", "t">>)],
       [src |-> <<"e", "x", "-", "d", "a", "t", "e">>, re |-> Lit(<<"e", "x", "-", "d", "a", "t", "e">>)],
       [src |-> <<"q", "u", "a", "r", "t", "e", "r", "l", "y">>, re |-> Lit(<<"q", "u", "a", "r", "t", "e", "r", "l", "y">>)],
       [src |-> <<"a", "n", "n", "u", "a", "l">>, re |-> Lit(<<"a", "n", "n", "u", "a", "l">>)] >>

\* price_patterns = r'\$\d+\.\d{2}', r'\d+\.\d{2}%', r'\d{1,3}(,\d{3})*\.\d{2}'
price_patterns ==
    << <<Ch("$"), Cls(Digits, 1, -1), Ch("."), Cls(Digits, 2, 2)>>,
       <<Cls(Digits, 1, -1), Ch("."), Cls(Digits, 2, 2), Ch("%")>>,
       <<Cls(Digits, 1, 3), Group(<<Ch(","), Cls(Digits, 3, 3)>>, 0, -1), Ch("."),
         Cls(Digits, 2, 2)>> >>

\* re.compile(r'(financial|dividend|price|data|value)'), searched in a class
financial_class_words ==
    <<Lit(<<"f", "i", "n", "a", "n", "c", "i", "a", "l">>), Lit(<<"d", "i", "v", "i", "d", "e", "n", "d">>), Lit(<<"p", "r", "i", "c", "e">>), Lit(<<"d", "a", "t", "a">>), Lit(<<"v", "a", "l", "u", "e">>)>>

\* the weight of one dividend pattern: `if 'dividend' in pattern`
dividend_weight(p) == IF Contains(p.src, <<"d", "i", "v", "i", "d", "e", "n", "d">>) THEN 3 ELSE 1

\* indicators['dividend_data'] after the loop over dividend_patterns
dividend_data(text_content) ==
    SeqSum([i \in 1..Len(dividend_patterns) |->
              FindallCount(dividend_patterns[i].re, text_content)
                * dividend_weight(dividend_patterns[i])])

\* indicators['financial_tables'] = len(soup.find_all('table'))
financial_tables(soup) == Len(FindAll(soup, {<<"t", "a", "b", "l", "e">>}))

\* indicators['total_elements']: the tr and td elements whose class matches
total_elements(soup) ==
    Len(SelectSeq(FindAll(soup, {<<"t", "r">>, <<"t", "d">>}),
                  LAMBDA e : e.cls # <<>> /\ ReSearchAlt(financial_class_words, e.cls)))

\* indicators['price_data'] after the loop over price_patterns
price_data(text_content) ==
    SeqSum([i \in 1..Len(price_patterns) |-> FindallCount(price_patterns[i], text_content)])

indicators(page) ==
    LET text_content == Lower(GetText(page)) IN
    [dividend_data    |-> dividend_data(text_content),
     financial_tables |-> financial_tables(Soup(page)),
     price_data       |-> price_data(text_content),
     total_elements   |-> total_elements(Soup(page))]

total_score(ind) ==
    ind.dividend_data * 2 + ind.financial_tables * 5 + ind.price_data * 3
      + ind.total_elements

\* a detector for which a score of 20 is enough
detect_financial_data_from_20(page) ==
    LET ind == indicators(page) IN
    [has_data |-> total_score(ind) >= 20, indicators |-> ind, total_score |-> total_score(ind)]

\* detect_financial_data(soup) -> (has_data, indicators, total_score)
detect_financial_data(page) ==
    LET ind == indicators(page) IN
    [has_data |-> total_score(ind) > 20, indicators |-> ind, total_score |-> total_score(ind)]

(***************************************************************************)
(* The documents the heuristics are run on                                 *)
(***************************************************************************)
\* longest document given to has_meaningful_content
MaxHmcElems == 4

\* longest document given to detect_financial_data
MaxDetectElems == 5

\* elements that exercise has_meaningful_content: cells with and without a
\* dividend value, the labels and the sequence outside any cell, and a cell
\* that is commented out
HmcElems ==
    { Elem(<<"t", "d">>, <<>>, <<"0", ".", "5", "1">>, FALSE),
      Elem(<<"t", "d">>, <<>>, <<" ", "0", ".", "5", "6", " ">>, FALSE),
      Elem(<<"t", "d">>, <<>>, <<"0", ".", "6", "2">>, FALSE),
      Elem(<<"t", "d">>, <<>>, <<"0", ".", "1", "2">>, FALSE),
      Elem(<<"t", "h">>, <<>>, <<"D", "i", "v", "i", "d", "e", "n", "d", " ", "P", "e", "r", " ", "S", "h", "a", "r", "e">>, FALSE),
      Elem(<<"p">>, <<>>, <<"d", "i", "v", "i", "d", "e", "n", "d", " ", "p", "e", "r", " ", "s", "h", "a", "r", "e", " ", "0", ".", "5", "1", " ", "0", ".", "5", "6", " ", "0", ".", "6", "2">>, FALSE),
      Elem(<<"t", "d">>, <<>>, <<"0", ".", "1", "2">>, TRUE) }

\* elements that exercise detect_financial_data: a table, a classed row,
\* keywords, and a classed cell of keywords and amounts
DetectElems ==
    { Elem(<<"t", "a", "b", "l", "e">>, <<>>, <<>>, FALSE),
      Elem(<<"t", "r">>, <<"d", "a", "t", "a", "-", "r", "o", "w">>, <<>>, FALSE),
      Elem(<<"p">>, <<>>, <<"D", "i", "v", "i", "d", "e", "n", "d", " ", "Y", "i", "e", "l", "d", " ", "e", "x", "-", "d", "a", "t", "e">>, FALSE),
      Elem(<<"t", "d">>, <<"p", "r", "i", "c", "e">>, <<"A", "n", "n", "u", "a", "l", " ", "p", "a", "y", "o", "u", "t", " ", "$", "0", ".", "5", "1", " ", "1", ",", "2", "3", "4", ".", "5", "6", " ", "1", "2", ".", "3", "4", "%">>, FALSE) }

\* the strings over an alphabet of elements, up to a length
SeqsUpTo(S, n) == UNION {[1..k -> S] : k \in 0..n}

(***************************************************************************)
(* has_meaningful_content applied to one html_content value                *)
(***************************************************************************)
HmcInputs == {NoneHtml} \cup {Html(p) : p \in SeqsUpTo(HmcElems, MaxHmcElems)}

HmcIdle == [html |-> NoneHtml, called |-> FALSE, result |-> FALSE]

HmcGiven == hmc \in {[html |-> h, called |-> FALSE, result |-> FALSE] : h \in HmcInputs}

HmcCall ==
    /\ ~hmc.called
    /\ hmc' = [hmc EXCEPT !.called = TRUE, !.result = has_meaningful_content(hmc.html)]
    /\ UNCHANGED <<quick, smart, detect, tbl, spider, pipe, server, errh, proxy, dup, cli, scr, cmp>>

(***************************************************************************)
(* detect_financial_data applied to one parsed document                    *)
(***************************************************************************)
NoDetection ==
    [has_data |-> FALSE,
     indicators |-> [dividend_data |-> 0, financial_tables |-> 0, price_data |-> 0,
                     total_elements |-> 0],
     total_score |-> 0]

DetectIdle == [page |-> <<>>, called |-> FALSE, result |-> NoDetection]

DetectGiven ==
    detect \in {[page |-> p, called |-> FALSE, result |-> NoDetection] :
                  p \in SeqsUpTo(DetectElems, MaxDetectElems)}

DetectCall ==
    /\ ~detect.called
    /\ detect' = [detect EXCEPT !.called = TRUE, !.result = detect_financial_data(detect.page)]
    /\ UNCHANGED <<quick, smart, hmc, tbl, spider, pipe, server, errh, proxy, dup, cli, scr, cmp>>

(***************************************************************************)
(* The web as the scrapers see it: what an HTTP request and what a browser *)
(* session may come back with                                              *)
(***************************************************************************)
ValueCell == Elem(<<"t", "d">>, <<>>, <<"0", ".", "5", "1">>, FALSE)
LabelAndSequence == Elem(<<"p">>, <<>>, <<"d", "i", "v", "i", "d", "e", "n", "d", " ", "p", "e", "r", " ", "s", "h", "a", "r", "e", " ", "0", ".", "5", "1", " ", "0", ".", "5", "6", " ", "0", ".", "6", "2">>, FALSE)
HiddenCell == Elem(<<"t", "d">>, <<>>, <<"0", ".", "1", "2">>, TRUE)
TableElem == Elem(<<"t", "a", "b", "l", "e">>, <<>>, <<>>, FALSE)
Paragraph == Elem(<<"p">>, <<>>, <<"L", "o", "a", "d", "i", "n", "g", ".", ".", ".">>, FALSE)

\* documents a site may serve: nothing; four and three cells of dividend values; the
\* label and the value sequence with no cell in the parsed document; five
\* tables; four tables; a paragraph
SitePages ==
    { <<>>,
      <<ValueCell, ValueCell, ValueCell, ValueCell>>,
      <<ValueCell, ValueCell, ValueCell>>,
      <<LabelAndSequence, HiddenCell>>,
      <<TableElem, TableElem, TableElem, TableElem, TableElem>>,
      <<TableElem, TableElem, TableElem, TableElem>>,
      <<Paragraph>> }

SiteUrls ==
    { <<"h", "t", "t", "p", "s", ":", "/", "/", "w", "w", "w", ".", "m", "o", "r", "n", "i", "n", "g", "s", "t", "a", "r", ".", "c", "o", "m", "/", "s", "t", "o", "c", "k", "s", "/", "x", "n", "a", "s", "/", "a", "a", "p", "l", "/", "d", "i", "v", "i", "d", "e", "n", "d", "s">>,
      <<"h", "t", "t", "p", ":", "/", "/", "e", "x", "a", "m", "p", "l", "e", ".", "c", "o", "m", "/">> }

\* requests.get: it raises, or answers with a status and a body
HttpOutcomes ==
    {[error |-> TRUE, status |-> 0, text |-> <<>>]}
      \cup {[error |-> FALSE, status |-> 200, text |-> p] : p \in SitePages}
      \cup {[error |-> FALSE, status |-> st, text |-> <<Paragraph>>] : st \in {404, 503}}

\* a Chrome session: it fails somewhere, or ends with a page source
BrowserOutcomes ==
    {[error |-> TRUE, page_source |-> <<>>]}
      \cup {[error |-> FALSE, page_source |-> p] : p \in SitePages}

\* a (html_content, success) pair
Fetched(h, ok) == [html |-> h, success |-> ok]

(***************************************************************************)
(* quick_scraper: get_html_fast, get_html_selenium, quick_scrape           *)
(***************************************************************************)
\* response.raise_for_status() raises for the client and server errors
RaisesForStatus(resp) == resp.status >= 400 /\ resp.status < 600

get_html_fast(resp) ==
    IF resp.error \/ RaisesForStatus(resp)
    THEN Fetched(NoneHtml, FALSE)
    ELSE Fetched(Html(resp.text), TRUE)

get_html_selenium(browser) ==
    IF browser.error
    THEN Fetched(NoneHtml, FALSE)
    ELSE Fetched(Html(browser.page_source), TRUE)

QuickIdle ==
    [pc |-> "idle", url |-> <<>>, fast |-> Fetched(NoneHtml, FALSE), has_data |-> FALSE,
     sel |-> Fetched(NoneHtml, FALSE), trace |-> <<>>, ret |-> <<>>]

\* a call of quick_scrape(url)
QuickStart ==
    /\ quick.pc \in {"idle", "done"}
    /\ \E url \in SiteUrls : quick' = [QuickIdle EXCEPT !.pc = "fast", !.url = url]
    /\ UNCHANGED <<smart, detect, hmc, tbl, spider, pipe, server, errh, proxy, dup, cli, scr, cmp>>

\* Step 1: html_content, success = get_html_fast(url)
QuickFast ==
    /\ quick.pc = "fast"
    /\ \E resp \in HttpOutcomes :
         LET r == get_html_fast(resp) IN
         quick' = [quick EXCEPT !.fast = r,
                                !.trace = Append(@, "get_html_fast"),
                                !.pc = IF Truthy(r.html) /\ r.success THEN "check"
                                       ELSE "selenium"]
    /\ UNCHANGED <<smart, detect, hmc, tbl, spider, pipe, server, errh, proxy, dup, cli, scr, cmp>>

\* quick_scrape without the return of the fast result
QuickCheckNoReturn ==
    /\ quick.pc = "check"
    /\ quick' = [quick EXCEPT !.has_data = has_meaningful_content(quick.fast.html),
                              !.trace = Append(@, "has_meaningful_content"),
                              !.pc = "selenium"]
    /\ UNCHANGED <<smart, detect, hmc, tbl, spider, pipe, server, errh, proxy, dup, cli, scr, cmp>>

\* quick_scrape returning the fast result whatever it holds
QuickCheckAlwaysFast ==
    /\ quick.pc = "check"
    /\ quick' = [quick EXCEPT !.has_data = has_meaningful_content(quick.fast.html),
                              !.trace = Append(@, "has_meaningful_content"),
                              !.pc = "done",
                              !.ret = <<quick.fast.html, "fast", "total_time">>]
    /\ UNCHANGED <<smart, detect, hmc, tbl, spider, pipe, server, errh, proxy, dup, cli, scr, cmp>>

\* has_data = has_meaningful_content(html_content), and the return of the
\* fast result when it has data
QuickCheck ==
    /\ quick.pc = "check"
    /\ LET has_data == has_meaningful_content(quick.fast.html) IN
       quick' = [quick EXCEPT !.has_data = has_data,
                              !.trace = Append(@, "has_meaningful_content"),
                              !.pc = IF has_data THEN "done" ELSE "selenium",
                              !.ret = IF has_data
                                      THEN <<quick.fast.html, "fast", "total_time">>
                                      ELSE @]
    /\ UNCHANGED <<smart, detect, hmc, tbl, spider, pipe, server, errh, proxy, dup, cli, scr, cmp>>

\* Step 2: html_content, success = get_html_selenium(url), and the return
QuickSelenium ==
    /\ quick.pc = "selenium"
    /\ \E browser \in BrowserOutcomes :
         LET r == get_html_selenium(browser) IN
         quick' = [quick EXCEPT !.sel = r,
                                !.trace = Append(@, "get_html_selenium"),
                                !.pc = "done",
                                !.ret = IF Truthy(r.html) /\ r.success
                                        THEN <<r.html, "selenium", "total_time">>
                                        ELSE <<NoneHtml, "failed", "total_time">>]
    /\ UNCHANGED <<smart, detect, hmc, tbl, spider, pipe, server, errh, proxy, dup, cli, scr, cmp>>

QuickNext == QuickStart \/ QuickFast \/ QuickCheck \/ QuickSelenium

(***************************************************************************)
(* urllib.parse.urlparse(url).netloc and str.replace                       *)
(***************************************************************************)
SchemeChars == Letters \cup Digits \cup {"+", "-", "."}

\* the position of the colon that ends the scheme, or 0 when url has none
SchemeEnd(url) ==
    LET colons == {i \in 1..Len(url) : url[i] = ":"} IN
    IF colons = {} THEN 0
    ELSE LET i == CHOOSE c \in colons : \A d \in colons : c <= d IN
         IF i > 1 /\ url[1] \in Letters /\ \A k \in 1..(i - 1) : url[k] \in SchemeChars
         THEN i ELSE 0

\* urlparse(url).scheme
UrlScheme(url) == Lower(SubSeq(url, 1, SchemeEnd(url) - 1))

\* urlparse(url).netloc: after the scheme, what follows // up to / ? or #
UrlNetloc(url) ==
    LET rest == SubSeq(url, SchemeEnd(url) + 1, Len(url)) IN
    IF ~StartsWith(rest, <<"/", "/">>) THEN <<>>
    ELSE LET stops == {i \in 3..Len(rest) : rest[i] \in {"/", "?", "#"}}
             delim == IF stops = {} THEN Len(rest) + 1
                      ELSE CHOOSE i \in stops : \A j \in stops : i <= j
         IN  SubSeq(rest, 3, delim - 1)

RECURSIVE Replace(_, _, _)
\* s.replace(old, new), old not empty
Replace(s, old, new) ==
    IF s = <<>> THEN <<>>
    ELSE IF OccursAt(old, s, 1)
    THEN new \o Replace(SubSeq(s, Len(old) + 1, Len(s)), old, new)
    ELSE <<Head(s)>> \o Replace(Tail(s), old, new)

(***************************************************************************)
(* website_configs.get_config_for_url                                      *)
(***************************************************************************)
URL_PATTERNS ==
    << <<<<"m", "o", "r", "n", "i", "n", "g", "s", "t", "a", "r", ".", "c", "o", "m">>, "morningstar">>,
       <<<<"f", "i", "n", "a", "n", "c", "e", ".", "y", "a", "h", "o", "o", ".", "c", "o", "m">>, "yahoo_finance">>,
       <<<<"y", "a", "h", "o", "o", ".", "c", "o", "m", "/", "q", "u", "o", "t", "e">>, "yahoo_finance">>,
       <<<<"m", "a", "r", "k", "e", "t", "w", "a", "t", "c", "h", ".", "c", "o", "m">>, "marketwatch">>,
       <<<<"g", "o", "o", "g", "l", "e", ".", "c", "o", "m", "/", "f", "i", "n", "a", "n", "c", "e">>, "google_finance">> >>

get_config_for_url(url) ==
    LET hits == {i \in 1..Len(URL_PATTERNS) : Contains(Lower(url), URL_PATTERNS[i][1])} IN
    IF hits = {} THEN "generic"
    ELSE URL_PATTERNS[CHOOSE i \in hits : \A j \in hits : i <= j][2]

(***************************************************************************)
(* smart_scraper: get_html_fast, smart_scrape; and                         *)
(* GenericFinancialScraper.scrape_url as smart_scrape uses it              *)
(***************************************************************************)
\* a filename or None
NoneName == [isNone |-> TRUE, name |-> <<>>]
Name(n) == [isNone |-> FALSE, name |-> n]

\* datetime.now().strftime("%Y%m%d_%H%M%S") at the time of the run
Timestamp == <<"2", "0", "2", "4", "0", "1", "0", "2", "_", "0", "3", "0", "4", "0", "5">>

\* f"smart_{method}_{domain}_{timestamp}.html"
SmartFilename(method, url) ==
    Concat(<<<<"s", "m", "a", "r", "t", "_">>, method, <<"_">>, Replace(UrlNetloc(url), <<"w", "w", "w", ".">>, <<>>), <<"_">>,
             Timestamp, <<".", "h", "t", "m", "l">>>>)

\* smart_scraper.get_html_fast: (html_content, success), the duration left out
smart_get_html_fast(resp) ==
    IF resp.error \/ RaisesForStatus(resp)
    THEN Fetched(NoneHtml, FALSE)
    ELSE Fetched(Html(resp.text), TRUE)

\* scrape_url: a ScrapingResult, of which smart_scrape reads success and
\* html_content; any exception of the session gives the failed result
scrape_url(browser) ==
    IF browser.error
    THEN [success |-> FALSE, html_content |-> <<>>]
    ELSE [success |-> TRUE, html_content |-> browser.page_source]

SmartIdle ==
    [pc |-> "idle", url |-> <<>>, fast |-> Fetched(NoneHtml, FALSE), score |-> NoDetection,
     config |-> "", result |-> [success |-> FALSE, html_content |-> <<>>],
     trace |-> <<>>, files |-> <<>>, write_failed |-> FALSE, ret |-> <<>>]

\* a call of smart_scrape(url)
SmartStart ==
    /\ smart.pc \in {"idle", "done"}
    /\ \E url \in SiteUrls : smart' = [SmartIdle EXCEPT !.pc = "fast", !.url = url]
    /\ UNCHANGED <<quick, detect, hmc, tbl, spider, pipe, server, errh, proxy, dup, cli, scr, cmp>>

\* Step 1: html_content, success, request_time = get_html_fast(url)
SmartFast ==
    /\ smart.pc = "fast"
    /\ \E resp \in HttpOutcomes :
         LET r == smart_get_html_fast(resp) IN
         smart' = [smart EXCEPT !.fast = r,
                                !.trace = Append(@, "get_html_fast"),
                                !.pc = IF Truthy(r.html) /\ r.success THEN "detect"
                                       ELSE "selenium"]
    /\ UNCHANGED <<quick, detect, hmc, tbl, spider, pipe, server, errh, proxy, dup, cli, scr, cmp>>

\* smart_scrape going on to Selenium whatever the score
SmartDetectNoFastPath ==
    /\ smart.pc = "detect"
    /\ smart' = [smart EXCEPT !.score = detect_financial_data(smart.fast.html.page),
                              !.trace = Append(@, "detect_financial_data"),
                              !.pc = "selenium"]
    /\ UNCHANGED <<quick, detect, hmc, tbl, spider, pipe, server, errh, proxy, dup, cli, scr, cmp>>

\* has_data, indicators, score = detect_financial_data(soup)
SmartDetect ==
    /\ smart.pc = "detect"
    /\ LET d == detect_financial_data(smart.fast.html.page) IN
       smart' = [smart EXCEPT !.score = d,
                              !.trace = Append(@, "detect_financial_data"),
                              !.pc = IF d.has_data THEN "save_fast" ELSE "selenium"]
    /\ UNCHANGED <<quick, detect, hmc, tbl, spider, pipe, server, errh, proxy, dup, cli, scr, cmp>>

\* the fast result is written to its file and returned; when the write
\* raises, the except clause falls back to Selenium
SmartSaveFast ==
    /\ smart.pc = "save_fast"
    /\ \E written \in BOOLEAN :
         LET filename == SmartFilename(<<"f", "a", "s", "t">>, smart.url) IN
         smart' = IF written
                  THEN [smart EXCEPT !.files = Append(@, filename),
                                     !.pc = "done",
                                     !.ret = <<smart.fast.html, "fast", "total_time",
                                               Name(filename)>>]
                  ELSE [smart EXCEPT !.write_failed = TRUE, !.pc = "selenium"]
    /\ UNCHANGED <<quick, detect, hmc, tbl, spider, pipe, server, errh, proxy, dup, cli, scr, cmp>>

\* Step 2: the configuration of the site, and result = scraper.scrape_url(url)
SmartSelenium ==
    /\ smart.pc = "selenium"
    /\ \E browser \in BrowserOutcomes :
         LET result == scrape_url(browser) IN
         smart' = [smart EXCEPT !.config = get_config_for_url(smart.url),
                                !.result = result,
                                !.trace = Append(@, "scrape_url"),
                                !.pc = IF result.success THEN "save_selenium" ELSE "done",
                                !.ret = IF result.success THEN @
                                        ELSE <<NoneHtml, "failed", "total_time", NoneName>>]
    /\ UNCHANGED <<quick, detect, hmc, tbl, spider, pipe, server, errh, proxy, dup, cli, scr, cmp>>

\* the Selenium result is written to its file and returned; when the write
\* raises, the except clause returns the failure
SmartSaveSelenium ==
    /\ smart.pc = "save_selenium"
    /\ \E written \in BOOLEAN :
         LET filename == SmartFilename(<<"s", "e", "l", "e", "n", "i", "u", "m">>, smart.url) IN
         smart' = IF written
                  THEN [smart EXCEPT !.files = Append(@, filename),
                                     !.pc = "done",
                                     !.ret = <<Html(smart.result.html_content), "selenium",
                                               "total_time", Name(filename)>>]
                  ELSE [smart EXCEPT !.write_failed = TRUE,
                                     !.pc = "done",
                                     !.ret = <<NoneHtml, "failed", "total_time", NoneName>>]
    /\ UNCHANGED <<quick, detect, hmc, tbl, spider, pipe, server, errh, proxy, dup, cli, scr, cmp>>

SmartNext ==
    SmartStart \/ SmartFast \/ SmartDetect \/ SmartSaveFast \/ SmartSelenium
      \/ SmartSaveSelenium

(***************************************************************************)
(* fast_free_scraper.is_financial_table_fast                               *)
(***************************************************************************)
financial_header_keywords ==
    << <<"d", "i", "v", "i", "d", "e", "n", "d">>, <<"y", "i", "e", "l", "d">>, <<"p", "r", "i", "c", "e">>, <<"d", "a", "t", "e">>, <<"a", "m", "o", "u", "n", "t">>, <<"p", "a", "y", "m", "e", "n", "t">>,
       <<"e", "x", "-", "d", "a", "t", "e">>, <<"r", "e", "c", "o", "r", "d">>, <<"e", "a", "r", "n", "i", "n", "g", "s">>, <<"r", "e", "v", "e", "n", "u", "e">>, <<"p", "r", "o", "f", "i", "t">> >>

\* rows[:5]
FirstRows == 5

\* s[:n]
Prefix(s, n) == SubSeq(s, 1, IF Len(s) < n THEN Len(s) ELSE n)

\* header_score = sum(1 for keyword in financial_header_keywords if keyword in headers_text)
header_score(table_info) ==
    LET headers_text == Lower(Join(<<" ">>, table_info.headers)) IN
    SeqSum([k \in 1..Len(financial_header_keywords) |->
              IF Contains(headers_text, financial_header_keywords[k]) THEN 1 ELSE 0])

\* a row score that counts every row of the table
row_score_all_rows(table_info) ==
    LET rows == table_info.rows IN
    SeqSum([r \in 1..Len(rows) |->
              LET row_text == Lower(Join(<<" ">>, rows[r])) IN
              IF Contains(row_text, <<"$">>) \/ Contains(row_text, <<"%">>) THEN 1 ELSE 0])

\* row_score after the loop over the first rows
row_score(table_info) ==
    LET rows == Prefix(table_info.rows, FirstRows) IN
    SeqSum([r \in 1..Len(rows) |->
              LET row_text == Lower(Join(<<" ">>, rows[r])) IN
              IF Contains(row_text, <<"$">>) \/ Contains(row_text, <<"%">>) THEN 1 ELSE 0])

is_financial_table_fast(table_info) ==
    header_score(table_info) >= 1 \/ row_score(table_info) >= 2

\* longest table given to the classifier
MaxRows == 6

TableHeaders ==
    { <<>>,
      <<<<"N", "a", "m", "e">>, <<"S", "y", "m", "b", "o", "l">>>>,
      <<<<"P", "a", "y">>, <<"m", "e", "n", "t">>>>,
      <<<<"E", "x", "-", "D", "a", "t", "e">>, <<"C", "a", "s", "h", " ", "A", "m", "o", "u", "n", "t">>>>,
      <<<<"D", "I", "V", "I", "D", "E", "N", "D">>>>,
      <<<<"U", "p", "d", "a", "t", "e", "d">>>> }

TableRows ==
    { <<<<"A", "A", "P", "L">>, <<"$", "0", ".", "2", "4">>>>,
      <<<<"G", "r", "o", "w", "t", "h">>, <<"4", ".", "5", "%">>>>,
      <<<<"A", "p", "p", "l", "e", " ", "I", "n", "c">>, <<"N", "a", "s", "d", "a", "q">>>> }

TblIdle == [table_info |-> [headers |-> <<>>, rows |-> <<>>], called |-> FALSE, result |-> FALSE]

TblGiven ==
    tbl \in {[table_info |-> [headers |-> h, rows |-> r], called |-> FALSE, result |-> FALSE] :
               h \in TableHeaders, r \in SeqsUpTo(TableRows, MaxRows)}

TblCall ==
    /\ ~tbl.called
    /\ tbl' = [tbl EXCEPT !.called = TRUE, !.result = is_financial_table_fast(tbl.table_info)]
    /\ UNCHANGED <<quick, smart, detect, hmc, spider, pipe, server, errh, proxy, dup, cli, scr, cmp>>

(***************************************************************************)
(* Python values the spider handles: str or None, dicts as key/value       *)
(* pairs in insertion order, and decoded JSON                              *)
(***************************************************************************)
DictHas(d, k) == \E i \in 1..Len(d) : d[i][1] = k
DictGet(d, k) == d[CHOOSE i \in 1..Len(d) : d[i][1] = k][2]

JNull == [type |-> "null", val |-> <<>>]
JStr(str) == [type |-> "str", val |-> str]
JNum(n) == [type |-> "num", val |-> n]
JList(items) == [type |-> "list", val |-> items]
JDict(pairs) == [type |-> "dict", val |-> pairs]

\* the truth value of a decoded JSON value
JTruthy(v) ==
    IF v.type = "null" THEN FALSE
    ELSE IF v.type = "num" THEN v.val # 0
    ELSE v.val # <<>>

RECURSIVE NatToStr(_)
NatToStr(n) ==
    LET d == <<"0", "1", "2", "3", "4", "5", "6", "7", "8", "9">>[(n % 10) + 1] IN
    IF n < 10 THEN <<d>> ELSE NatToStr(n \div 10) \o <<d>>

\* str(v) of a string or of a number that is not negative
PyStr(v) == IF v.type = "num" THEN NatToStr(v.val) ELSE v.val

\* a term the model does not compute: json.dumps(v, indent=2), and its length
JsonDumps(v) == [fn |-> "json.dumps", arg |-> v, indent |-> 2]
LenOf(term) == [fn |-> "len", arg |-> term]

\* item[key] = value
Set(item, key, value) ==
    [k \in DOMAIN item \cup {key} |-> IF k = key THEN value ELSE item[k]]

(***************************************************************************)
(* universal_scraper.spiders.universal.UniversalSpider                     *)
(***************************************************************************)
\* a constructor that keeps the format as it was given
SpiderConstructedNoLower(url, format) ==
    LET given == ~url.isNone /\ url.name # <<>>
        fmt == IF format.isNone THEN <<"j", "s", "o", "n">> ELSE format.name
    IN  [allowed_domains |-> IF given THEN <<UrlNetloc(url.name)>> ELSE <<<<"e", "x", "a", "m", "p", "l", "e", ".", "c", "o", "m">>>>,
         start_urls |-> IF given THEN <<url.name>> ELSE <<<<"h", "t", "t", "p", "s", ":", "/", "/", "e", "x", "a", "m", "p", "l", "e", ".", "c", "o", "m">>>>,
         output_format |-> fmt]

\* UniversalSpider.__init__(url, format): url and format are a string or
\* None, None for an argument that is not given
SpiderConstructed(url, format) ==
    LET given == ~url.isNone /\ url.name # <<>>
        fmt == IF format.isNone THEN <<"j", "s", "o", "n">> ELSE format.name
    IN  [allowed_domains |-> IF given THEN <<UrlNetloc(url.name)>> ELSE <<<<"e", "x", "a", "m", "p", "l", "e", ".", "c", "o", "m">>>>,
         start_urls |-> IF given THEN <<url.name>> ELSE <<<<"h", "t", "t", "p", "s", ":", "/", "/", "e", "x", "a", "m", "p", "l", "e", ".", "c", "o", "m">>>>,
         output_format |-> Lower(fmt)]

\* headers.get(name, default): the last value of the header
HeaderGet(headers, name, default) ==
    IF DictHas(headers, name) /\ DictGet(headers, name) # <<>>
    THEN DictGet(headers, name)[Len(DictGet(headers, name))]
    ELSE default

\* the header names and values decoded from bytes (ASCII: the same characters)
response_headers(response) ==
    [i \in 1..Len(response.headers) |->
        <<response.headers[i][1],
          [j \in 1..Len(response.headers[i][2]) |-> response.headers[i][2][j]]>>]

content_type(response) == Lower(HeaderGet(response.headers, <<"C", "o", "n", "t", "e", "n", "t", "-", "T", "y", "p", "e">>, <<>>))

is_json(response) ==
    Contains(content_type(response), <<"a", "p", "p", "l", "i", "c", "a", "t", "i", "o", "n", "/", "j", "s", "o", "n">>)
      \/ EndsWith(response.url, <<".", "j", "s", "o", "n">>)

LinkKeys == <<"url", "link", "href", "website", "permalink">>

\* the values of the common URL fields of one JSON object, as strings
ObjLinks(obj) ==
    IF obj.type # "dict" THEN <<>>
    ELSE LET found == SelectSeq(LinkKeys,
                                LAMBDA key : DictHas(obj.val, key) /\ JTruthy(DictGet(obj.val, key)))
         IN  [i \in 1..Len(found) |-> PyStr(DictGet(obj.val, found[i]))]

\* value[:10]
LinkScanLimit == 10

\* all_links of the JSON branch
json_links(json_data) ==
    IF json_data.type = "list"
    THEN Concat([i \in 1..Len(json_data.val) |-> ObjLinks(json_data.val[i])])
    ELSE IF json_data.type = "dict"
    THEN Concat([i \in 1..Len(json_data.val) |->
                   LET value == json_data.val[i][2] IN
                   IF value.type = "list" /\ Len(value.val) > 0
                   THEN Concat([j \in 1..Len(Prefix(value.val, LinkScanLimit)) |->
                                  ObjLinks(value.val[j])])
                   ELSE <<>>])
    ELSE <<>>

\* the item after the JSON branch, response.json() having succeeded
JsonItem(item, response) ==
    LET json_data == response.body.json.value
        text_content == JsonDumps(json_data)
        i1 == Set(item, "title", Name(<<"J", "S", "O", "N", " ", "A", "P", "I", " ", "R", "e", "s", "p", "o", "n", "s", "e", " ", "f", "r", "o", "m", " ">> \o UrlNetloc(response.url)))
        i2 == Set(i1, "text_content", text_content)
        i3 == Set(i2, "text_length", LenOf(text_content))
        i4 == Set(i3, "html_content", text_content)
        i5 == Set(i4, "links", json_links(json_data))
    IN  Set(i5, "custom_data", json_data)

\* the item after the JSON branch, response.json() having raised JSONDecodeError
JsonFallbackItem(item, response) ==
    LET i1 == Set(item, "title", Name(<<"A", "P", "I", " ", "R", "e", "s", "p", "o", "n", "s", "e", " ", "f", "r", "o", "m", " ">> \o UrlNetloc(response.url)))
        i2 == Set(i1, "text_content", response.body.text)
        i3 == Set(i2, "text_length", Len(response.body.text))
        i4 == Set(i3, "html_content", response.body.text)
        i5 == Set(i4, "links", <<>>)
    IN  Set(i5, "custom_data", JDict(<< <<"error", JStr(<<"F", "a", "i", "l", "e", "d", " ", "t", "o", " ", "p", "a", "r", "s", "e", " ", "J", "S", "O", "N">>)>> >>))

\* the item after the HTML branch
HtmlItem(item, response) ==
    LET i1 == Set(item, "title", response.body.title)
        i2 == Set(i1, "text_content", response.body.text)
        i3 == Set(i2, "text_length", Len(response.body.text))
        i4 == Set(i3, "html_content", response.body.text)
        html_selector_content == response.body.html
        i5 == IF Contains(response.url, <<"f", "i", "n", "a", "n", "c", "e", ".", "y", "a", "h", "o", "o", ".", "c", "o", "m">>)
                   /\ ~html_selector_content.isNone /\ html_selector_content.name # <<>>
              THEN Set(Set(i4, "html_content", html_selector_content.name),
                       "custom_data",
                       JDict(<< <<"css_selector_used", JStr(<<"h", "t", "m", "l">>)>>,
                                <<"yahoo_finance_html", JStr(html_selector_content.name)>> >>))
              ELSE i4
    IN  Set(i5, "links", response.body.hrefs)

\* link.startswith(('http://', 'https://'))
IsHttpLink(link) == StartsWith(link, <<"h", "t", "t", "p", ":", "/", "/">>) \/ StartsWith(link, <<"h", "t", "t", "p", "s", ":", "/", "/">>)

\* the link goes to external_links, otherwise to internal_links
IsExternal(link, base_domain) == IsHttpLink(link) /\ UrlNetloc(link) # base_domain

\* internal_links and external_links are set
SeparateLinks(item, response) ==
    IF ~is_json(response) \/ (is_json(response) /\ item["links"] # <<>>)
    THEN LET base_domain == UrlNetloc(response.url)
             i1 == Set(item, "internal_links",
                       SelectSeq(item["links"], LAMBDA link : ~IsExternal(link, base_domain)))
         IN  Set(i1, "external_links",
                 SelectSeq(item["links"], LAMBDA link : IsExternal(link, base_domain)))
    ELSE Set(Set(item, "internal_links", <<>>), "external_links", <<>>)

\* the keys of the item when it yields only the HTML content
HtmlOutputOnlyContent(item) ==
    [k \in {"html_content", "url"} |-> item[k]]

\* {'html_content': ..., 'url': ..., 'title': ...}
HtmlOutput(item) ==
    [k \in {"html_content", "url", "title"} |-> item[k]]

\* the JSON branch without its except clause
ParseJsonUncaught(item, response) ==
    IF response.body.json.ok THEN <<JsonItem(item, response)>> ELSE <<>>

\* the try block of the JSON branch: no item when the exception escapes
ParseJson(item, response) ==
    IF response.body.json.ok
    THEN <<JsonItem(item, response)>>
    ELSE <<JsonFallbackItem(item, response)>>

\* UniversalSpider.parse(response): the items it yields; now is the clock
parse(self, response, now) ==
    LET i0 == Set(Set(Set(<<>>, "url", response.url), "status", response.status),
                  "response_headers", response_headers(response))
        branch == IF is_json(response) THEN ParseJson(i0, response)
                  ELSE <<HtmlItem(i0, response)>>
    IN  IF branch = <<>> THEN <<>>
        ELSE LET i1 == SeparateLinks(branch[1], response)
                 i2 == Set(i1, "scraped_at", now)
                 i3 == Set(i2, "user_agent",
                           HeaderGet(response.request.headers, <<"U", "s", "e", "r", "-", "A", "g", "e", "n", "t">>, <<>>))
                 i4 == IF "custom_data" \in DOMAIN i3 THEN i3
                       ELSE Set(i3, "custom_data", JDict(<<>>))
                 i5 == Set(Set(i4, "error_message", JNull), "retry_count", 0)
             IN  IF self.output_format = <<"h", "t", "m", "l">>
                 THEN <<HtmlOutput(i5)>>
                 ELSE <<i5>>

(***************************************************************************)
(* The spider's inputs: constructor arguments and responses                *)
(***************************************************************************)
\* url arguments: not given, empty, with and without a scheme
SpiderUrlArgs ==
    { NoneName, Name(<<>>), Name(<<"h", "t", "t", "p", "s", ":", "/", "/", "e", "x", "a", "m", "p", "l", "e", ".", "c", "o", "m">>),
      Name(<<"h", "t", "t", "p", ":", "/", "/", "s", "u", "b", "d", "o", "m", "a", "i", "n", ".", "e", "x", "a", "m", "p", "l", "e", ".", "c", "o", "m">>), Name(<<"h", "t", "t", "p", "s", ":", "/", "/", "e", "x", "a", "m", "p", "l", "e", ".", "o", "r", "g", "/", "p", "a", "t", "h", "/", "t", "o", "/", "p", "a", "g", "e">>),
      Name(<<"e", "x", "a", "m", "p", "l", "e", ".", "c", "o", "m", "/", "p", "a", "g", "e">>) }

\* format arguments: not given, or a name in some case
SpiderFormatArgs ==
    { NoneName, Name(<<"j", "s", "o", "n">>), Name(<<"h", "t", "m", "l">>), Name(<<"H", "T", "M", "L">>), Name(<<"c", "s", "v">>) }

\* what the body of a response is to each reader of it: its text, the title
\* and the html element and the hrefs the selectors find, and what
\* response.json() makes of it.  In turn: the page of the tests; a page of
\* links of every kind; an empty body; a JSON object; a JSON array; a JSON
\* number
ResponseBodies ==
    { [text |-> <<"<", "h", "t", "m", "l", ">", "<", "h", "e", "a", "d", ">", "<", "t", "i", "t", "l", "e", ">", "T", "e", "s", "t", " ", "P", "a", "g", "e", "<", "/", "t", "i", "t", "l", "e", ">", "<", "/", "h", "e", "a", "d", ">", "<", "b", "o", "d", "y", ">", "<", "a", " ", "h", "r", "e", "f", "=", "\"", "h", "t", "t", "p", "s", ":", "/", "/", "e", "x", "a", "m", "p", "l", "e", ".", "c", "o", "m", "\"", ">", "E", "x", "t", "e", "r", "n", "a", "l", " ", "L", "i", "n", "k", "<", "/", "a", ">", "<", "a", " ", "h", "r", "e", "f", "=", "\"", "/", "i", "n", "t", "e", "r", "n", "a", "l", "\"", ">", "I", "n", "t", "e", "r", "n", "a", "l", " ", "L", "i", "n", "k", "<", "/", "a", ">", "<", "/", "b", "o", "d", "y", ">", "<", "/", "h", "t", "m", "l", ">">>,
       title |-> Name(<<"T", "e", "s", "t", " ", "P", "a", "g", "e">>),
       html |-> Name(<<"<", "h", "t", "m", "l", ">", "<", "h", "e", "a", "d", ">", "<", "t", "i", "t", "l", "e", ">", "T", "e", "s", "t", " ", "P", "a", "g", "e", "<", "/", "t", "i", "t", "l", "e", ">", "<", "/", "h", "e", "a", "d", ">", "<", "b", "o", "d", "y", ">", "<", "a", " ", "h", "r", "e", "f", "=", "\"", "h", "t", "t", "p", "s", ":", "/", "/", "e", "x", "a", "m", "p", "l", "e", ".", "c", "o", "m", "\"", ">", "E", "x", "t", "e", "r", "n", "a", "l", " ", "L", "i", "n", "k", "<", "/", "a", ">", "<", "a", " ", "h", "r", "e", "f", "=", "\"", "/", "i", "n", "t", "e", "r", "n", "a", "l", "\"", ">", "I", "n", "t", "e", "r", "n", "a", "l", " ", "L", "i", "n", "k", "<", "/", "a", ">", "<", "/", "b", "o", "d", "y", ">", "<", "/", "h", "t", "m", "l", ">">>),
       hrefs |-> <<<<"h", "t", "t", "p", "s", ":", "/", "/", "e", "x", "a", "m", "p", "l", "e", ".", "c", "o", "m">>, <<"/", "i", "n", "t", "e", "r", "n", "a", "l">>>>,
       json |-> [ok |-> FALSE, value |-> JNull]],
      [text |-> <<"<", "h", "t", "m", "l", ">", "<", "h", "e", "a", "d", ">", "<", "t", "i", "t", "l", "e", ">", "L", "i", "n", "k", "s", "<", "/", "t", "i", "t", "l", "e", ">", "<", "/", "h", "e", "a", "d", ">", "<", "b", "o", "d", "y", ">", "<", "a", " ", "h", "r", "e", "f", "=", "\"", "h", "t", "t", "p", "s", ":", "/", "/", "o", "t", "h", "e", "r", ".", "o", "r", "g", "/", "x", "\"", ">", "a", "<", "/", "a", ">", "<", "a", " ", "h", "r", "e", "f", "=", "\"", "h", "t", "t", "p", ":", "/", "/", "e", "x", "a", "m", "p", "l", "e", ".", "c", "o", "m", "/", "a", "\"", ">", "b", "<", "/", "a", ">", "<", "a", " ", "h", "r", "e", "f", "=", "\"", "H", "T", "T", "P", "S", ":", "/", "/", "E", "X", "A", "M", "P", "L", "E", ".", "C", "O", "M", "/", "\"", ">", "c", "<", "/", "a", ">", "<", "a", " ", "h", "r", "e", "f", "=", "\"", "/", "/", "c", "d", "n", ".", "e", "x", "a", "m", "p", "l", "e", ".", "o", "r", "g", "/", "l", "i", "b", ".", "j", "s", "\"", ">", "d", "<", "/", "a", ">", "<", "a", " ", "h", "r", "e", "f", "=", "\"", "m", "a", "i", "l", "t", "o", ":", "a", "@", "e", "x", "a", "m", "p", "l", "e", ".", "c", "o", "m", "\"", ">", "e", "<", "/", "a", ">", "<", "/", "b", "o", "d", "y", ">", "<", "/", "h", "t", "m", "l", ">">>,
       title |-> Name(<<"L", "i", "n", "k", "s">>),
       html |-> Name(<<"<", "h", "t", "m", "l", ">", "<", "h", "e", "a", "d", ">", "<", "t", "i", "t", "l", "e", ">", "L", "i", "n", "k", "s", "<", "/", "t", "i", "t", "l", "e", ">", "<", "/", "h", "e", "a", "d", ">", "<", "b", "o", "d", "y", ">", "<", "a", " ", "h", "r", "e", "f", "=", "\"", "h", "t", "t", "p", "s", ":", "/", "/", "o", "t", "h", "e", "r", ".", "o", "r", "g", "/", "x", "\"", ">", "a", "<", "/", "a", ">", "<", "a", " ", "h", "r", "e", "f", "=", "\"", "h", "t", "t", "p", ":", "/", "/", "e", "x", "a", "m", "p", "l", "e", ".", "c", "o", "m", "/", "a", "\"", ">", "b", "<", "/", "a", ">", "<", "a", " ", "h", "r", "e", "f", "=", "\"", "H", "T", "T", "P", "S", ":", "/", "/", "E", "X", "A", "M", "P", "L", "E", ".", "C", "O", "M", "/", "\"", ">", "c", "<", "/", "a", ">", "<", "a", " ", "h", "r", "e", "f", "=", "\"", "/", "/", "c", "d", "n", ".", "e", "x", "a", "m", "p", "l", "e", ".", "o", "r", "g", "/", "l", "i", "b", ".", "j", "s", "\"", ">", "d", "<", "/", "a", ">", "<", "a", " ", "h", "r", "e", "f", "=", "\"", "m", "a", "i", "l", "t", "o", ":", "a", "@", "e", "x", "a", "m", "p", "l", "e", ".", "c", "o", "m", "\"", ">", "e", "<", "/", "a", ">", "<", "/", "b", "o", "d", "y", ">", "<", "/", "h", "t", "m", "l", ">">>),
       hrefs |-> <<<<"h", "t", "t", "p", "s", ":", "/", "/", "o", "t", "h", "e", "r", ".", "o", "r", "g", "/", "x">>, <<"h", "t", "t", "p", ":", "/", "/", "e", "x", "a", "m", "p", "l", "e", ".", "c", "o", "m", "/", "a">>, <<"H", "T", "T", "P", "S", ":", "/", "/", "E", "X", "A", "M", "P", "L", "E", ".", "C", "O", "M", "/">>, <<"/", "/", "c", "d", "n", ".", "e", "x", "a", "m", "p", "l", "e", ".", "o", "r", "g", "/", "l", "i", "b", ".", "j", "s">>, <<"m", "a", "i", "l", "t", "o", ":", "a", "@", "e", "x", "a", "m", "p", "l", "e", ".", "c", "o", "m">>>>,
       json |-> [ok |-> FALSE, value |-> JNull]],
      [text |-> <<>>,
       title |-> NoneName,
       html |-> NoneName,
       hrefs |-> <<>>,
       json |-> [ok |-> FALSE, value |-> JNull]],
      [text |-> <<"{", "\"", "d", "a", "t", "a", "\"", ":", " ", "[", "{", "\"", "i", "d", "\"", ":", " ", "1", ",", " ", "\"", "u", "r", "l", "\"", ":", " ", "\"", "h", "t", "t", "p", "s", ":", "/", "/", "e", "x", "a", "m", "p", "l", "e", ".", "c", "o", "m", "/", "i", "t", "e", "m", "1", "\"", "}", ",", " ", "{", "\"", "i", "d", "\"", ":", " ", "2", ",", " ", "\"", "u", "r", "l", "\"", ":", " ", "\"", "h", "t", "t", "p", "s", ":", "/", "/", "o", "t", "h", "e", "r", ".", "o", "r", "g", "/", "i", "t", "e", "m", "2", "\"", "}", "]", ",", " ", "\"", "m", "e", "t", "a", "\"", ":", " ", "{", "\"", "t", "o", "t", "a", "l", "\"", ":", " ", "2", "}", "}">>,
       title |-> NoneName,
       html |-> Name(<<"<", "h", "t", "m", "l", ">", "<", "b", "o", "d", "y", ">", "<", "p", ">", "{", "\"", "d", "a", "t", "a", "\"", ":", " ", "[", "{", "\"", "i", "d", "\"", ":", " ", "1", ",", " ", "\"", "u", "r", "l", "\"", ":", " ", "\"", "h", "t", "t", "p", "s", ":", "/", "/", "e", "x", "a", "m", "p", "l", "e", ".", "c", "o", "m", "/", "i", "t", "e", "m", "1", "\"", "}", ",", " ", "{", "\"", "i", "d", "\"", ":", " ", "2", ",", " ", "\"", "u", "r", "l", "\"", ":", " ", "\"", "h", "t", "t", "p", "s", ":", "/", "/", "o", "t", "h", "e", "r", ".", "o", "r", "g", "/", "i", "t", "e", "m", "2", "\"", "}", "]", ",", " ", "\"", "m", "e", "t", "a", "\"", ":", " ", "{", "\"", "t", "o", "t", "a", "l", "\"", ":", " ", "2", "}", "}", "<", "/", "p", ">", "<", "/", "b", "o", "d", "y", ">", "<", "/", "h", "t", "m", "l", ">">>),
       hrefs |-> <<>>,
       json |-> [ok |-> TRUE, value |-> JDict(<<<<"data", JList(<<JDict(<<<<"id", JNum(1)>>, <<"url", JStr(<<"h", "t", "t", "p", "s", ":", "/", "/", "e", "x", "a", "m", "p", "l", "e", ".", "c", "o", "m", "/", "i", "t", "e", "m", "1">>)>>>>), JDict(<<<<"id", JNum(2)>>, <<"url", JStr(<<"h", "t", "t", "p", "s", ":", "/", "/", "o", "t", "h", "e", "r", ".", "o", "r", "g", "/", "i", "t", "e", "m", "2">>)>>>>)>>)>>, <<"meta", JDict(<<<<"total", JNum(2)>>>>)>>>>)]],
      [text |-> <<"[", "{", "\"", "l", "i", "n", "k", "\"", ":", " ", "\"", "/", "r", "e", "l", "a", "t", "i", "v", "e", "\"", ",", " ", "\"", "h", "r", "e", "f", "\"", ":", " ", "\"", "\"", ",", " ", "\"", "w", "e", "b", "s", "i", "t", "e", "\"", ":", " ", "n", "u", "l", "l", ",", " ", "\"", "p", "e", "r", "m", "a", "l", "i", "n", "k", "\"", ":", " ", "7", "}", ",", " ", "\"", "x", "\"", "]">>,
       title |-> NoneName,
       html |-> Name(<<"<", "h", "t", "m", "l", ">", "<", "b", "o", "d", "y", ">", "<", "p", ">", "[", "{", "\"", "l", "i", "n", "k", "\"", ":", " ", "\"", "/", "r", "e", "l", "a", "t", "i", "v", "e", "\"", ",", " ", "\"", "h", "r", "e", "f", "\"", ":", " ", "\"", "\"", ",", " ", "\"", "w", "e", "b", "s", "i", "t", "e", "\"", ":", " ", "n", "u", "l", "l", ",", " ", "\"", "p", "e", "r", "m", "a", "l", "i", "n", "k", "\"", ":", " ", "7", "}", ",", " ", "\"", "x", "\"", "]", "<", "/", "p", ">", "<", "/", "b", "o", "d", "y", ">", "<", "/", "h", "t", "m", "l", ">">>),
       hrefs |-> <<>>,
       json |-> [ok |-> TRUE, value |-> JList(<<JDict(<<<<"link", JStr(<<"/", "r", "e", "l", "a", "t", "i", "v", "e">>)>>, <<"href", JStr(<<>>)>>, <<"website", JNull>>, <<"permalink", JNum(7)>>>>), JStr(<<"x">>)>>)]],
      [text |-> <<"7">>,
       title |-> NoneName,
       html |-> Name(<<"<", "h", "t", "m", "l", ">", "<", "b", "o", "d", "y", ">", "<", "p", ">", "7", "<", "/", "p", ">", "<", "/", "b", "o", "d", "y", ">", "<", "/", "h", "t", "m", "l", ">">>),
       hrefs |-> <<>>,
       json |-> [ok |-> TRUE, value |-> JNum(7)]] }

ResponseUrls ==
    { <<"h", "t", "t", "p", "s", ":", "/", "/", "e", "x", "a", "m", "p", "l", "e", ".", "c", "o", "m">>, <<"h", "t", "t", "p", "s", ":", "/", "/", "a", "p", "i", ".", "e", "x", "a", "m", "p", "l", "e", ".", "c", "o", "m", "/", "d", "a", "t", "a">>,
      <<"h", "t", "t", "p", "s", ":", "/", "/", "e", "x", "a", "m", "p", "l", "e", ".", "c", "o", "m", "/", "f", "e", "e", "d", ".", "j", "s", "o", "n">>, <<"h", "t", "t", "p", "s", ":", "/", "/", "f", "i", "n", "a", "n", "c", "e", ".", "y", "a", "h", "o", "o", ".", "c", "o", "m", "/", "q", "u", "o", "t", "e", "/", "A", "A", "P", "L">> }

\* the Content-Type header: absent, HTML, JSON, JSON in another case
ContentTypes ==
    { <<>>,
      << <<<<"C", "o", "n", "t", "e", "n", "t", "-", "T", "y", "p", "e">>, <<<<"t", "e", "x", "t", "/", "h", "t", "m", "l", ";", " ", "c", "h", "a", "r", "s", "e", "t", "=", "u", "t", "f", "-", "8">>>> >> >>,
      << <<<<"C", "o", "n", "t", "e", "n", "t", "-", "T", "y", "p", "e">>, <<<<"a", "p", "p", "l", "i", "c", "a", "t", "i", "o", "n", "/", "j", "s", "o", "n">>>> >> >>,
      << <<<<"C", "o", "n", "t", "e", "n", "t", "-", "T", "y", "p", "e">>, <<<<"A", "p", "p", "l", "i", "c", "a", "t", "i", "o", "n", "/", "J", "S", "O", "N", ";", " ", "c", "h", "a", "r", "s", "e", "t", "=", "u", "t", "f", "-", "8">>>> >> >> }

RequestHeaders ==
    { <<>>, << <<<<"U", "s", "e", "r", "-", "A", "g", "e", "n", "t">>, <<<<"S", "c", "r", "a", "p", "y", "/", "2", ".", "1", "1">>>> >> >> }

Responses ==
    {[url |-> u, status |-> 200, headers |-> h, body |-> b, request |-> [headers |-> rh]] :
       u \in ResponseUrls, h \in ContentTypes, b \in ResponseBodies, rh \in RequestHeaders}

\* datetime.now().isoformat() at the time of the call
ScrapedAt == <<"2", "0", "2", "4", "-", "0", "1", "-", "0", "2", "T", "0", "3", ":", "0", "4", ":", "0", "5">>

NoSpider == [allowed_domains |-> <<>>, start_urls |-> <<>>, output_format |-> <<>>]

NoResponse ==
    [url |-> <<>>, status |-> 0, headers |-> <<>>,
     body |-> [text |-> <<>>, title |-> NoneName, html |-> NoneName, hrefs |-> <<>>,
               json |-> [ok |-> FALSE, value |-> JNull]],
     request |-> [headers |-> <<>>]]

SpiderIdle ==
    [constructed |-> FALSE, url |-> NoneName, format |-> NoneName, self |-> NoSpider,
     parsed |-> FALSE, response |-> NoResponse, yielded |-> <<>>]

\* spider = UniversalSpider(url=..., format=...)
SpiderNew ==
    /\ ~spider.constructed
    /\ \E url \in SpiderUrlArgs, format \in SpiderFormatArgs :
         spider' = [spider EXCEPT !.constructed = TRUE, !.url = url, !.format = format,
                                  !.self = SpiderConstructed(url, format)]
    /\ UNCHANGED <<quick, smart, detect, hmc, tbl, pipe, server, errh, proxy, dup, cli, scr, cmp>>

\* list(spider.parse(response))
SpiderParse ==
    /\ spider.constructed /\ ~spider.parsed
    /\ \E response \in Responses :
         spider' = [spider EXCEPT !.parsed = TRUE, !.response = response,
                                  !.yielded = parse(spider.self, response, ScrapedAt)]
    /\ UNCHANGED <<quick, smart, detect, hmc, tbl, pipe, server, errh, proxy, dup, cli, scr, cmp>>

\* the engine has taken the items; the spider waits for its next response
SpiderTaken ==
    /\ spider.parsed
    /\ spider' = [spider EXCEPT !.parsed = FALSE, !.response = NoResponse, !.yielded = <<>>]
    /\ UNCHANGED <<quick, smart, detect, hmc, tbl, pipe, server, errh, proxy, dup, cli, scr, cmp>>

SpiderNext == SpiderNew \/ SpiderParse \/ SpiderTaken

(***************************************************************************)
(* DataExportPipeline: the items of one crawl are buffered and exported    *)
(* when the spider closes                                                  *)
(***************************************************************************)
\* most items buffered in one crawl
MaxPipeItems == 2

\* html_content[:preview_length]
preview_length == 1000

\* the spiders whose items reach the pipeline
PipeSpiders ==
    {SpiderConstructed(Name(<<"h", "t", "t", "p", "s", ":", "/", "/", "e", "x", "a", "m", "p", "l", "e", ".", "c", "o", "m">>), Name(f)) :
       f \in {<<"j", "s", "o", "n">>, <<"h", "t", "m", "l">>, <<"c", "s", "v">>}}

\* the responses they parse
PipeResponses ==
    {r \in Responses : r.url = <<"h", "t", "t", "p", "s", ":", "/", "/", "e", "x", "a", "m", "p", "l", "e", ".", "c", "o", "m">> /\ r.request.headers = <<>>}

\* item.get(key, default)
ItemGet(item, key, default) == IF key \in DOMAIN item THEN item[key] ELSE default

\* what _export_json prints: every item in full
export_json(items) == [kind |-> "json", items |-> items]

\* a term the model does not compute: the content itself, or its first n
\* characters and a note when it is longer than n
Preview(content, n) == [fn |-> "preview", arg |-> content, n |-> n]

\* what _export_html prints: title, url and the content of the first item
export_html(items) ==
    LET item == items[1]
        html_content == ItemGet(item, "html_content", <<>>)
    IN  [kind |-> "html",
         items |-> << [title |-> ItemGet(item, "title", Name(<<"N", "o", " ", "t", "i", "t", "l", "e">>)),
                       url |-> ItemGet(item, "url", <<"N", "o", " ", "U", "R", "L">>),
                       html_content |-> Preview(html_content, preview_length)] >>]

NoExport == [kind |-> "none", items |-> <<>>]

\* DataExportPipeline.close_spider: what is exported
close_spider(items) ==
    IF items = <<>> THEN NoExport
    ELSE LET is_html_format == Len(items) > 0 /\ "html_content" \in DOMAIN items[1]
         IN  IF is_html_format THEN export_html(items) ELSE export_json(items)

PipeIdle ==
    [opened |-> FALSE, spider |-> NoSpider, items |-> <<>>, closed |-> FALSE,
     exported |-> NoExport]

\* the crawl starts: DataExportPipeline() for one spider
PipeOpen ==
    /\ ~pipe.opened
    /\ \E self \in PipeSpiders : pipe' = [pipe EXCEPT !.opened = TRUE, !.spider = self]
    /\ UNCHANGED <<quick, smart, detect, hmc, tbl, spider, server, errh, proxy, dup, cli, scr, cmp>>

\* process_item(item, spider) for an item the spider's parse yields
PipeProcessItem ==
    /\ pipe.opened /\ ~pipe.closed /\ Len(pipe.items) < MaxPipeItems
    /\ \E response \in PipeResponses :
         LET yielded == parse(pipe.spider, response, ScrapedAt) IN
         /\ yielded # <<>>
         /\ pipe' = [pipe EXCEPT !.items = Append(@, yielded[1])]
    /\ UNCHANGED <<quick, smart, detect, hmc, tbl, spider, server, errh, proxy, dup, cli, scr, cmp>>

\* close_spider(spider)
PipeCloseSpider ==
    /\ pipe.opened /\ ~pipe.closed
    /\ pipe' = [pipe EXCEPT !.closed = TRUE, !.exported = close_spider(pipe.items)]
    /\ UNCHANGED <<quick, smart, detect, hmc, tbl, spider, server, errh, proxy, dup, cli, scr, cmp>>

PipeNext == PipeOpen \/ PipeProcessItem \/ PipeCloseSpider

(***************************************************************************)
(* scraper_server: ScraperHTTPHandler.handle_scrape_request                *)
(***************************************************************************)
JBool(b) == [type |-> "bool", val |-> b]

\* the truth value of a JSON value (True, False included)
Truth(v) == IF v.type = "bool" THEN v.val ELSE JTruthy(v)

\* dict.get(key, default)
JGet(d, key, default) == IF DictHas(d.val, key) THEN DictGet(d.val, key) ELSE default

\* str.strip()
Strip(s) == RStrip(LStrip(s))

\* len(content_data) > 1000000
ContentLimit == 1000000

TruncationNote ==
    <<"\\", "n", "\\", "n", ".", ".", ".", " ", "[", "C", "O", "N", "T", "E", "N", "T", " ", "T", "R", "U", "N", "C", "A", "T", "E", "D", " ", "-", " ", "R", "e", "s", "p", "o", "n", "s", "e", " ", "t", "o", "o", " ", "l", "a", "r", "g", "e", "]", " ", ".", ".", ".">>

\* send_error(code, message): the error page of BaseHTTPRequestHandler
SendError(code, message, exception) ==
    [status |-> code, content_type |-> <<"t", "e", "x", "t", "/", "h", "t", "m", "l", ";", "c", "h", "a", "r", "s", "e", "t", "=", "u", "t", "f", "-", "8">>,
     body |-> [kind |-> "error_page", message |-> message, exception |-> exception]]

NoReply == [status |-> 0, content_type |-> <<>>, body |-> [kind |-> "none"]]

\* what one call of the handler has done: the subprocess runs it started
\* and the response it sent
Handled(cmds, response, include_content) ==
    [cmds |-> cmds, response |-> response, include_content |-> include_content]

InvalidJson == SendError(400, <<"I", "n", "v", "a", "l", "i", "d", " ", "J", "S", "O", "N", " ", "i", "n", " ", "r", "e", "q", "u", "e", "s", "t", " ", "b", "o", "d", "y">>, "")

UrlRequired ==
    SendError(400, <<"U", "R", "L", " ", "p", "a", "r", "a", "m", "e", "t", "e", "r", " ", "i", "s", " ", "r", "e", "q", "u", "i", "r", "e", "d", ".", " ", "U", "s", "e", " ", "e", "i", "t", "h", "e", "r", " ", "J", "S", "O", "N", " ", "b", "o", "d", "y", " ", "{", "'", "u", "r", "l", "'", ":", " ", "'", ".", ".", ".", "'", ",", " ", "'", "m", "o", "d", "e", "'", ":", " ", "'", ".", ".", ".", "'", "}", " ", "o", "r", " ", "q", "u", "e", "r", "y", " ", "p", "a", "r", "a", "m", "s", " ", "?", "u", "r", "l", "=", ".", ".", ".", "&", "m", "o", "d", "e", "=", ".", ".", ".">>, "")

InternalError(exception) == SendError(500, <<"I", "n", "t", "e", "r", "n", "a", "l", " ", "s", "e", "r", "v", "e", "r", " ", "e", "r", "r", "o", "r", ":", " ">>, exception)

\* request_data of a GET: parse_qs of the query, blank values dropped
GetRequestData(request) ==
    JDict(<< <<"url", JStr(IF request.query.url.isNone THEN <<>> ELSE request.query.url.name)>>,
             <<"mode", JStr(IF request.query.mode.isNone THEN <<"f", "u", "l", "l">>
                            ELSE request.query.mode.name)>> >>)

\* lines 84-105: content_data parsed from the output of the subprocess;
\* raised names the exception that escapes the inner except clause
ParseOutput(include_content, result) ==
    LET none == [content_data |-> NoneName, scraper_json_data |-> JNull, raised |-> ""] IN
    IF ~(include_content /\ result.returncode = 0) THEN none
    ELSE IF ~(result.stdout.start_marker /\ result.stdout.end_marker) THEN none
    ELSE IF ~result.stdout.json.ok THEN none
    ELSE LET scraper_json_data == result.stdout.json.value IN
         IF scraper_json_data.type # "dict" THEN [none EXCEPT !.raised = "AttributeError"]
         ELSE LET content == JGet(scraper_json_data, "content", JStr(<<>>)) IN
              IF content.type # "str" THEN [none EXCEPT !.raised = "TypeError"]
              ELSE [content_data |->
                       Name(IF Len(content.val) > ContentLimit
                            THEN Prefix(content.val, ContentLimit) \o TruncationNote
                            ELSE content.val),
                    scraper_json_data |-> scraper_json_data, raised |-> ""]

\* lines 132-158: the response after the subprocess has run
SendResponse(url, mode, include_content, result, content_data) ==
    IF result.returncode = 0 /\ ~content_data.isNone /\ content_data.name # <<>>
         /\ include_content
    THEN [status |-> 200, content_type |-> <<"t", "e", "x", "t", "/", "p", "l", "a", "i", "n", ";", " ", "c", "h", "a", "r", "s", "e", "t", "=", "u", "t", "f", "-", "8">>,
          body |-> [kind |-> "content", content |-> content_data.name]]
    ELSE [status |-> 500, content_type |-> <<"a", "p", "p", "l", "i", "c", "a", "t", "i", "o", "n", "/", "j", "s", "o", "n">>,
          body |-> [kind |-> "json",
                    success |-> result.returncode = 0, url |-> url, mode |-> mode,
                    stderr |-> result.stderr,
                    error |-> <<"S", "c", "r", "a", "p", "i", "n", "g", " ", "f", "a", "i", "l", "e", "d", " ", "o", "r", " ", "n", "o", " ", "c", "o", "n", "t", "e", "n", "t", " ", "r", "e", "t", "u", "r", "n", "e", "d">>]]

\* lines 54-160: the request data are known
HandleRequestData(request_data, result) ==
    IF request_data.type # "dict" THEN Handled(<<>>, InternalError("AttributeError"), FALSE)
    ELSE
    LET url_value == JGet(request_data, "url", JStr(<<>>))
        mode_value == JGet(request_data, "mode", JStr(<<"f", "u", "l", "l">>))
        include_value == JGet(request_data, "include_content", JBool(TRUE))
    IN  IF url_value.type # "str" \/ mode_value.type # "str"
        THEN Handled(<<>>, InternalError("AttributeError"), FALSE)
        ELSE
        LET url == Strip(url_value.val)
            mode == Strip(mode_value.val)
            include_content == Truth(include_value)
        IN  IF url = <<>> THEN Handled(<<>>, UrlRequired, include_content)
            ELSE
            LET cmd_args == <<<<"q", "u", "i", "c", "k", "_", "s", "c", "r", "a", "p", "e", "r", ".", "p", "y">>, url, mode>>
                              \o (IF include_content THEN <<<<"-", "-", "r", "e", "t", "u", "r", "n", "-", "c", "o", "n", "t", "e", "n", "t">>>> ELSE <<>>)
                parsed == ParseOutput(include_content, result)
            IN  IF parsed.raised # ""
                THEN Handled(<<cmd_args>>, InternalError(parsed.raised), include_content)
                ELSE Handled(<<cmd_args>>,
                             SendResponse(url, mode, include_content, result,
                                          parsed.content_data),
                             include_content)

\* handle_scrape_request for one request; result is what the subprocess
\* returns if it is run
handle_scrape_request(request, result) ==
    IF request.command = "POST"
    THEN IF request.content_length = "malformed"
         THEN Handled(<<>>, InternalError("ValueError"), FALSE)
         ELSE IF request.content_length = "positive"
         THEN IF ~request.body.utf8
              THEN Handled(<<>>, InternalError("UnicodeDecodeError"), FALSE)
              ELSE IF ~request.body.json.ok THEN Handled(<<>>, InvalidJson, FALSE)
              ELSE HandleRequestData(request.body.json.value, result)
         ELSE HandleRequestData(JDict(<<>>), result)
    ELSE HandleRequestData(GetRequestData(request), result)

\* the query of a GET: url and mode given or not
GetRequests ==
    {[command |-> "GET", content_length |-> "absent",
      body |-> [utf8 |-> TRUE, json |-> [ok |-> FALSE, value |-> JNull]],
      query |-> [url |-> u, mode |-> md]] :
       u \in {NoneName, Name(<<" ">>), Name(<<"h", "t", "t", "p", "s", ":", "/", "/", "e", "x", "a", "m", "p", "l", "e", ".", "c", "o", "m">>)},
       md \in {NoneName, Name(<<"s", "t", "a", "t", "s">>), Name(<<"f", "u", "l", "l">>)}}

\* the bodies of a POST: bytes that are not UTF-8, text that is not JSON,
\* JSON that is not an object, and objects with and without url, mode and
\* include_content
PostBodies ==
    {[utf8 |-> FALSE, json |-> [ok |-> FALSE, value |-> JNull]],
     [utf8 |-> TRUE, json |-> [ok |-> FALSE, value |-> JNull]],
     [utf8 |-> TRUE, json |-> [ok |-> TRUE, value |-> JList(<<>>)]]}
      \cup {[utf8 |-> TRUE, json |-> [ok |-> TRUE, value |-> JDict(d)]] :
              d \in { <<>>,
                      << <<"url", JStr(<<" ", " ">>)>> >>,
                      << <<"url", JNum(5)>> >>,
                      << <<"url", JStr(<<" ", "h", "t", "t", "p", "s", ":", "/", "/", "e", "x", "a", "m", "p", "l", "e", ".", "c", "o", "m", " ">>)>> >>,
                      << <<"url", JStr(<<"h", "t", "t", "p", "s", ":", "/", "/", "e", "x", "a", "m", "p", "l", "e", ".", "c", "o", "m">>)>>, <<"mode", JStr(<<"s", "t", "a", "t", "s">>)>>,
                         <<"include_content", JBool(FALSE)>> >>,
                      << <<"url", JStr(<<"h", "t", "t", "p", "s", ":", "/", "/", "e", "x", "a", "m", "p", "l", "e", ".", "c", "o", "m">>)>>, <<"mode", JStr(<<"f", "u", "l", "l">>)>>,
                         <<"include_content", JBool(TRUE)>> >>,
                      << <<"url", JStr(<<"h", "t", "t", "p", "s", ":", "/", "/", "e", "x", "a", "m", "p", "l", "e", ".", "c", "o", "m">>)>>,
                         <<"include_content", JStr(<<"f", "a", "l", "s", "e">>)>> >> }}

PostRequests ==
    {[command |-> "POST", content_length |-> cl, body |-> b,
      query |-> [url |-> NoneName, mode |-> NoneName]] :
       cl \in {"absent", "zero", "positive", "malformed"}, b \in PostBodies}

\* what subprocess.run returns: the exit code, and in stdout the two
\* markers and what json.loads makes of the text between them
SubprocessResults ==
    {[returncode |-> rc, stdout |-> out, stderr |-> err] :
       rc \in {0, 1},
       out \in {[start_marker |-> FALSE, end_marker |-> FALSE, json |-> [ok |-> FALSE, value |-> JNull]],
                [start_marker |-> TRUE, end_marker |-> FALSE, json |-> [ok |-> FALSE, value |-> JNull]],
                [start_marker |-> TRUE, end_marker |-> TRUE, json |-> [ok |-> FALSE, value |-> JNull]],
                [start_marker |-> TRUE, end_marker |-> TRUE,
                 json |-> [ok |-> TRUE,
                           value |-> JDict(<< <<"success", JBool(TRUE)>>,
                                              <<"content", JStr(<<"<", "h", "t", "m", "l", ">", "A", "A", "P", "L", "<", "/", "h", "t", "m", "l", ">">>)>> >>)]],
                [start_marker |-> TRUE, end_marker |-> TRUE,
                 json |-> [ok |-> TRUE,
                           value |-> JDict(<< <<"success", JBool(TRUE)>>,
                                              <<"content", JStr(<<>>)>> >>)]],
                [start_marker |-> TRUE, end_marker |-> TRUE,
                 json |-> [ok |-> TRUE,
                           value |-> JDict(<< <<"success", JBool(FALSE)>>,
                                              <<"error", JStr(<<"B", "o", "t", "h", " ", "f", "a", "s", "t", " ", "a", "n", "d", " ", "S", "e", "l", "e", "n", "i", "u", "m", " ", "m", "e", "t", "h", "o", "d", "s", " ", "f", "a", "i", "l", "e", "d">>)>> >>)]]},
       err \in {NoneName, Name(<<"T", "r", "a", "c", "e", "b", "a", "c", "k">>)}}

NoRequest ==
    [command |-> "", content_length |-> "absent",
     body |-> [utf8 |-> TRUE, json |-> [ok |-> FALSE, value |-> JNull]],
     query |-> [url |-> NoneName, mode |-> NoneName]]

NoResult ==
    [returncode |-> 0,
     stdout |-> [start_marker |-> FALSE, end_marker |-> FALSE, json |-> [ok |-> FALSE, value |-> JNull]],
     stderr |-> NoneName]

ServerIdle ==
    [pc |-> "idle", request |-> NoRequest, result |-> NoResult, cmds |-> <<>>,
     include_content |-> FALSE, response |-> NoReply]

\* do_GET or do_POST with a path that starts with /scrape
ServerReceive ==
    /\ server.pc = "idle"
    /\ \E request \in GetRequests \cup PostRequests :
         server' = [server EXCEPT !.pc = "handling", !.request = request]
    /\ UNCHANGED <<quick, smart, detect, hmc, tbl, spider, pipe, errh, proxy, dup, cli, scr, cmp>>

\* handle_scrape_request, the subprocess returning result if it is run
ServerHandle ==
    /\ server.pc = "handling"
    /\ \E result \in SubprocessResults :
         LET h == handle_scrape_request(server.request, result) IN
         server' = [server EXCEPT !.pc = "done",
                                  !.result = IF h.cmds = <<>> THEN NoResult ELSE result,
                                  !.cmds = h.cmds,
                                  !.include_content = h.include_content,
                                  !.response = h.response]
    /\ UNCHANGED <<quick, smart, detect, hmc, tbl, spider, pipe, errh, proxy, dup, cli, scr, cmp>>

ServerNext == ServerReceive \/ ServerHandle

(***************************************************************************)
(* utils/error_handling: ErrorHandler.handle_http_error                    *)
(***************************************************************************)
\* highest status code given to the handler
MaxStatusCode == 599

\* the responses handled: every status code from 100 on
ErrorResponses ==
    {[status |-> st, url |-> <<"h", "t", "t", "p", "s", ":", "/", "/", "e", "x", "a", "m", "p", "l", "e", ".", "c", "o", "m">>] : st \in 100..MaxStatusCode}

\* the handler with the test for 404 lost
handle_http_error_without_404(response) ==
    LET status_code == response.status IN
    IF status_code = 403
    THEN [continue |-> FALSE, logged |-> "error", error |-> "AntiScrapingDetected"]
    ELSE IF status_code = 429
    THEN [continue |-> FALSE, logged |-> "error", error |-> "RateLimitExceeded"]
    ELSE IF status_code >= 500
    THEN [continue |-> TRUE, logged |-> "error", error |-> "ScrapingError"]
    ELSE [continue |-> TRUE, logged |-> "warning", error |-> ""]

\* ErrorHandler.handle_http_error(response, spider): the value returned,
\* the level of the record logged and the error it was made for
handle_http_error(response) ==
    LET status_code == response.status IN
    IF status_code = 403
    THEN [continue |-> FALSE, logged |-> "error", error |-> "AntiScrapingDetected"]
    ELSE IF status_code = 429
    THEN [continue |-> FALSE, logged |-> "error", error |-> "RateLimitExceeded"]
    ELSE IF status_code >= 500
    THEN [continue |-> TRUE, logged |-> "error", error |-> "ScrapingError"]
    ELSE IF status_code = 404
    THEN [continue |-> FALSE, logged |-> "warning", error |-> ""]
    ELSE [continue |-> TRUE, logged |-> "warning", error |-> ""]

ErrhIdle ==
    [response |-> [status |-> 0, url |-> <<>>], called |-> FALSE,
     result |-> [continue |-> FALSE, logged |-> "", error |-> ""]]

\* a response reaches the handler
ErrhGiven ==
    \E response \in ErrorResponses : errh = [ErrhIdle EXCEPT !.response = response]

\* result = error_handler.handle_http_error(response, spider)
ErrhCall ==
    /\ ~errh.called
    /\ errh' = [errh EXCEPT !.called = TRUE, !.result = handle_http_error(errh.response)]
    /\ UNCHANGED <<quick, smart, detect, hmc, tbl, spider, pipe, server, proxy, dup, cli, scr, cmp>>

ErrhNext == ErrhCall

(***************************************************************************)
(* utils/proxy_management: ProxyManager                                    *)
(***************************************************************************)
\* longest proxy_list
MaxProxies == 3

\* highest count kept in proxy_stats
MaxProxyCount == 1

ProxyNames == {"proxy_a", "proxy_b"}

\* list.remove(x): the first occurrence of x is taken out
RemoveFirst(list, x) ==
    LET i == CHOOSE k \in 1..Len(list) : list[k] = x /\ \A j \in 1..(k - 1) : list[j] # x
    IN  SubSeq(list, 1, i - 1) \o SubSeq(list, i + 1, Len(list))

InSeq(x, list) == \E i \in 1..Len(list) : list[i] = x

\* the loop of validate_all_proxies from position i on; ok[i] is what
\* validate_proxy returns for the i-th entry of proxy_list
RECURSIVE ValidateFrom(_, _, _, _)
ValidateFrom(self, ok, i, acc) ==
    IF i > Len(self.proxy_list) THEN acc
    ELSE LET p == self.proxy_list[i] IN
         IF p \in acc.failed_proxies THEN ValidateFrom(self, ok, i + 1, acc)
         ELSE IF ok[i]
         THEN ValidateFrom(self, ok, i + 1,
                [acc EXCEPT !.working_proxies = Append(@, p),
                            !.proxy_stats = IF p \in DOMAIN @ THEN @
                                            ELSE [q \in DOMAIN @ \cup {p} |->
                                                    IF q = p THEN [success |-> 0, failed |-> 0]
                                                    ELSE @[q]]])
         ELSE ValidateFrom(self, ok, i + 1, [acc EXCEPT !.failed_proxies = @ \cup {p}])

\* ProxyManager.validate_all_proxies
validate_all_proxies(self, ok) ==
    [ValidateFrom(self, ok, 1, [self EXCEPT !.working_proxies = <<>>])
       EXCEPT !.validated = TRUE]

\* ProxyManager.mark_proxy_failed
mark_proxy_failed(self, p) ==
    [self EXCEPT
       !.working_proxies = IF InSeq(p, @) THEN RemoveFirst(@, p) ELSE @,
       !.failed_proxies = @ \cup {p},
       !.proxy_stats = IF p \in DOMAIN @ THEN [@ EXCEPT ![p].failed = @ + 1] ELSE @]

\* ProxyManager.mark_proxy_success
mark_proxy_success(self, p) ==
    [self EXCEPT
       !.proxy_stats = IF p \in DOMAIN @ THEN [@ EXCEPT ![p].success = @ + 1] ELSE @]

\* ProxyManager(proxy_list)
NewProxyManager(proxy_list) ==
    [proxy_list |-> proxy_list, working_proxies |-> <<>>, failed_proxies |-> {},
     proxy_stats |-> <<>>, validated |-> FALSE]

\* the manager, the last call made, what get_random_proxy last returned
\* and the proxies given to mark_proxy_failed so far
ProxyIdle ==
    [self |-> NewProxyManager(<<>>), made |-> FALSE, last |-> "",
     returned |-> [isNone |-> TRUE, name |-> ""], marked |-> {}]

ProxyNew ==
    /\ ~proxy.made
    /\ \E proxy_list \in SeqsUpTo(ProxyNames, MaxProxies) :
         proxy' = [proxy EXCEPT !.made = TRUE, !.self = NewProxyManager(proxy_list),
                                !.last = "__init__"]
    /\ UNCHANGED <<quick, smart, detect, hmc, tbl, spider, pipe, server, errh, dup, cli, scr, cmp>>

ProxyValidateAll ==
    /\ proxy.made
    /\ \E ok \in [1..Len(proxy.self.proxy_list) -> BOOLEAN] :
         proxy' = [proxy EXCEPT !.self = validate_all_proxies(@, ok),
                                !.last = "validate_all_proxies"]
    /\ UNCHANGED <<quick, smart, detect, hmc, tbl, spider, pipe, server, errh, dup, cli, scr, cmp>>

\* get_random_proxy: the list is validated again when the last validation
\* is older than validation_interval, as it is before the first one
ProxyGetRandom ==
    /\ proxy.made
    /\ \E stale \in BOOLEAN, ok \in [1..Len(proxy.self.proxy_list) -> BOOLEAN] :
         LET self == IF stale \/ ~proxy.self.validated
                     THEN validate_all_proxies(proxy.self, ok) ELSE proxy.self
         IN  \/ /\ self.working_proxies = <<>>
                /\ proxy' = [proxy EXCEPT !.self = self, !.last = "get_random_proxy",
                                          !.returned = [isNone |-> TRUE, name |-> ""]]
             \/ \E i \in 1..Len(self.working_proxies) :
                  proxy' = [proxy EXCEPT !.self = self, !.last = "get_random_proxy",
                                         !.returned = [isNone |-> FALSE,
                                                       name |-> self.working_proxies[i]]]
    /\ UNCHANGED <<quick, smart, detect, hmc, tbl, spider, pipe, server, errh, dup, cli, scr, cmp>>

ProxyMarkFailed ==
    /\ proxy.made
    /\ \E p \in ProxyNames :
         /\ p \in DOMAIN proxy.self.proxy_stats => proxy.self.proxy_stats[p].failed < MaxProxyCount
         /\ proxy' = [proxy EXCEPT !.self = mark_proxy_failed(@, p),
                                   !.last = "mark_proxy_failed", !.marked = @ \cup {p}]
    /\ UNCHANGED <<quick, smart, detect, hmc, tbl, spider, pipe, server, errh, dup, cli, scr, cmp>>

ProxyMarkSuccess ==
    /\ proxy.made
    /\ \E p \in ProxyNames :
         /\ p \in DOMAIN proxy.self.proxy_stats => proxy.self.proxy_stats[p].success < MaxProxyCount
         /\ proxy' = [proxy EXCEPT !.self = mark_proxy_success(@, p),
                                   !.last = "mark_proxy_success"]
    /\ UNCHANGED <<quick, smart, detect, hmc, tbl, spider, pipe, server, errh, dup, cli, scr, cmp>>

ProxyNext ==
    ProxyNew \/ ProxyValidateAll \/ ProxyGetRandom \/ ProxyMarkFailed \/ ProxyMarkSuccess

(***************************************************************************)
(* universal_scraper.pipelines.DuplicateFilterPipeline                     *)
(***************************************************************************)
\* most items given to one DuplicateFilterPipeline
MaxDupItems == 4

\* items with one of two urls or with none, and with one of two titles
DupItems ==
    LET titled == {[title |-> JStr(<<"A">>)], [title |-> JStr(<<"B">>)]}
    IN  titled
          \cup {Set(item, "url", JStr(u)) :
                  item \in titled,
                  u \in {<<"h", "t", "t", "p", "s", ":", "/", "/", "e", "x", "a", "m", "p", "l", "e", ".", "c", "o", "m", "/", "a">>, <<"h", "t", "t", "p", "s", ":", "/", "/", "e", "x", "a", "m", "p", "l", "e", ".", "c", "o", "m", "/", "b">>}}

\* a filter that never records the url it has seen
process_item_without_add(self, item) ==
    LET url == ItemGet(item, "url", JNull)
    IN  IF url \in self.seen_urls
        THEN [self |-> self, raised |-> "DropItem", returned |-> JNull]
        ELSE [self |-> self, raised |-> "", returned |-> JDict(item)]

\* DuplicateFilterPipeline.process_item
process_item(self, item) ==
    LET url == ItemGet(item, "url", JNull)
    IN  IF url \in self.seen_urls
        THEN [self |-> self, raised |-> "DropItem", returned |-> JNull]
        ELSE [self |-> [self EXCEPT !.seen_urls = @ \cup {url}],
              raised |-> "", returned |-> JDict(item)]

\* DuplicateFilterPipeline()
NewDuplicateFilterPipeline == [seen_urls |-> {}]

\* the filter, the items given to it so far and what each call did
DupIdle == [self |-> NewDuplicateFilterPipeline, given |-> <<>>, outcome |-> <<>>]

DupProcessItem ==
    /\ Len(dup.given) < MaxDupItems
    /\ \E item \in DupItems :
         LET call == process_item(dup.self, item)
         IN  dup' = [self |-> call.self,
                     given |-> Append(dup.given, item),
                     outcome |-> Append(dup.outcome,
                                   [raised |-> call.raised, returned |-> call.returned])]
    /\ UNCHANGED <<quick, smart, detect, hmc, tbl, spider, pipe, server, errh, proxy, cli, scr, cmp>>

DupNext == DupProcessItem

(***************************************************************************)
(* quick_scraper.main                                                      *)
(***************************************************************************)
ReturnContentFlag == <<"-", "-", "r", "e", "t", "u", "r", "n", "-", "c", "o", "n", "t", "e", "n", "t">>

\* sys.argv: the script alone, or the script and a url followed by an
\* output mode, the flag, or both
MainArgvs ==
    {<<<<"q", "u", "i", "c", "k", "_", "s", "c", "r", "a", "p", "e", "r", ".", "p", "y">>>>}
      \cup {<<<<"q", "u", "i", "c", "k", "_", "s", "c", "r", "a", "p", "e", "r", ".", "p", "y">>, url>> \o rest :
              url \in SiteUrls,
              rest \in {<<>>, <<<<"s", "t", "a", "t", "s">>>>, <<<<"f", "u", "l", "l">>>>, <<<<"F", "U", "L", "L">>>>,
                        <<ReturnContentFlag>>,
                        <<<<"s", "t", "a", "t", "s">>, ReturnContentFlag>>,
                        <<<<"f", "u", "l", "l">>, ReturnContentFlag>>}}

\* what quick_scrape returns: html_content and method
QuickScrapeReturns ==
    {<<Html(p), method>> : p \in SitePages, method \in {"fast", "selenium"}}
      \cup {<<NoneHtml, "failed">>}

\* a local variable of main that no assignment has reached yet
Unbound == [bound |-> FALSE, value |-> <<>>]
Bound(value) == [bound |-> TRUE, value |-> value]

\* f"{temp_dir}/scraper_{domain}_{url_hash}_{timestamp}" with the temp
\* directory, the md5 prefix and the time of one run
OutputFileStem(url) ==
    LET domain == Replace(Replace(UrlNetloc(url), <<"w", "w", "w", ".">>, <<>>), <<".">>, <<"_">>)
    IN  <<"/", "t", "m", "p", "/", "s", "c", "r", "a", "p", "e", "r", "_">> \o domain \o <<"_", "0", "a", "1", "b", "2", "c", "3", "d", "_", "1", "7", "0", "0", "0", "0", "0", "0", "0", "0">>

\* how the process ends: what it printed, the files it wrote, the exception
\* that left main uncaught ("" if none) and its exit status
Ended(stdout, files, exception, status) ==
    [stdout |-> stdout, files |-> files, exception |-> exception, status |-> status]

\* the content key of result_data
ResultContent(output_mode, html_content) ==
    IF Lower(output_mode) = <<"f", "u", "l", "l">> THEN "html_content" ELSE "summary"

\* main from the call of quick_scrape on; ret is what quick_scrape returned
MainAfterScrape(argv, ret) ==
    LET url == argv[2]
        output_mode == IF Len(argv) > 2 THEN argv[3] ELSE <<"s", "t", "a", "t", "s">>
        return_content == InSeq(ReturnContentFlag, argv)
        html_content == ret[1]
        method == ret[2]
        full == Lower(output_mode) = <<"f", "u", "l", "l">>
        output_file ==
            IF Truthy(html_content) /\ ~return_content
            THEN Bound(OutputFileStem(url) \o (IF full THEN <<".", "h", "t", "m", "l">> ELSE <<"_", "s", "t", "a", "t", "s", ".", "m", "d">>))
            ELSE Unbound
    IN  IF Truthy(html_content)
        THEN IF return_content
             THEN Ended(<<"JSON_RESULT_START",
                          [success |-> TRUE, url |-> url, method |-> method,
                           mode |-> output_mode,
                           content |-> ResultContent(output_mode, html_content)],
                          "JSON_RESULT_END">>,
                        {}, "", 0)
             ELSE Ended(<<>>,
                        {[name |-> output_file.value,
                          holds |-> IF full THEN "summary and html_content"
                                    ELSE "summary and sample"]},
                        "", 0)
        ELSE IF return_content
             THEN Ended(<<"JSON_RESULT_START",
                          [success |-> FALSE, url |-> url,
                           error |-> <<"B", "o", "t", "h", " ", "f", "a", "s", "t", " ", "a", "n", "d", " ", "S", "e", "l", "e", "n", "i", "u", "m", " ", "m", "e", "t", "h", "o", "d", "s", " ", "f", "a", "i", "l", "e", "d">>],
                          "JSON_RESULT_END">>,
                        {}, "", 1)
             ELSE IF ~output_file.bound
             THEN Ended(<<>>, {}, "UnboundLocalError", 1)
             ELSE Ended(<<>>,
                        {[name |-> Replace(Replace(output_file.value, <<".", "h", "t", "m", "l">>,
                                                   <<"_", "e", "r", "r", "o", "r", ".", "m", "d">>),
                                           <<"_", "s", "t", "a", "t", "s", ".", "m", "d">>, <<"_", "e", "r", "r", "o", "r", ".", "m", "d">>),
                          holds |-> "error_summary"]},
                        "", 1)

\* main without arguments: the usage text and sys.exit(1)
MainUsage == Ended(<<"Usage">>, {}, "", 1)

NoEnd == Ended(<<>>, {}, "", -1)

CliIdle ==
    [pc |-> "idle", argv |-> <<>>, ret |-> <<NoneHtml, "">>, ended |-> NoEnd]

\* python quick_scraper.py ...: main up to the call of quick_scrape
MainStart ==
    /\ cli.pc \in {"idle", "done"}
    /\ \E argv \in MainArgvs :
         cli' = IF Len(argv) < 2
                THEN [CliIdle EXCEPT !.pc = "done", !.argv = argv, !.ended = MainUsage]
                ELSE [CliIdle EXCEPT !.pc = "quick_scrape", !.argv = argv]
    /\ UNCHANGED <<quick, smart, detect, hmc, tbl, spider, pipe, server, errh, proxy, dup, scr, cmp>>

\* html_content, method, duration = quick_scrape(url)
MainQuickScrape ==
    /\ cli.pc = "quick_scrape"
    /\ \E ret \in QuickScrapeReturns : cli' = [cli EXCEPT !.pc = "report", !.ret = ret]
    /\ UNCHANGED <<quick, smart, detect, hmc, tbl, spider, pipe, server, errh, proxy, dup, scr, cmp>>

\* the rest of main
MainReport ==
    /\ cli.pc = "report"
    /\ cli' = [cli EXCEPT !.pc = "done", !.ended = MainAfterScrape(cli.argv, cli.ret)]
    /\ UNCHANGED <<quick, smart, detect, hmc, tbl, spider, pipe, server, errh, proxy, dup, scr, cmp>>

CliNext == MainStart \/ MainQuickScrape \/ MainReport

(***************************************************************************)
(* fast_free_scraper.scrape_with_requests, fast_scraper.scrape_with_firecrawl *)
(***************************************************************************)
\* s.split(sep) for a separator of one character
RECURSIVE Split(_, _)
Split(s, sep) ==
    IF \A i \in 1..Len(s) : s[i] # sep THEN <<s>>
    ELSE LET i == CHOOSE k \in 1..Len(s) : s[k] = sep /\ \A j \in 1..(k - 1) : s[j] # sep
         IN  <<SubSeq(s, 1, i - 1)>> \o Split(SubSeq(s, i + 1, Len(s)), sep)

ScrUrls == {<<"h", "t", "t", "p", "s", ":", "/", "/", "e", "x", "a", "m", "p", "l", "e", ".", "c", "o", "m", "/", "q", "u", "o", "t", "e">>, <<"h", "t", "t", "p", ":", "/", "/", "f", "i", "n", "a", "n", "c", "e", ".", "e", "x", "a", "m", "p", "l", "e", ".", "o", "r", "g">>, <<"e", "x", "a", "m", "p", "l", "e", ".", "c", "o", "m">>}

ScrFormats == {<<"j", "s", "o", "n">>, <<"h", "t", "m", "l">>, <<"s", "u", "m", "m", "a", "r", "y">>, <<"J", "S", "O", "N">>, <<"x", "m", "l">>}

\* what the run meets: is bs4 installed, what requests.get does, the
\* status of the answer, whether parsing and extraction raise, and what
\* open() and the writes do
RequestsEnvs ==
    [bs4 : BOOLEAN, get : {"ok", "ConnectionError"}, status : {200, 404, 503},
     parse : {"ok", "raises"}, write : {"ok", "open raises", "write raises"}]

\* is firecrawl installed, what scrape_url does, result.get('success',
\* False), and what open() and the writes do
FirecrawlEnvs ==
    [firecrawl : BOOLEAN, scrape_url : {"ok", "raises"}, success : BOOLEAN,
     write : {"ok", "open raises", "write raises"}]

\* how a statement list ends: with a value, or with an exception raised
Value(v, files) == [raised |-> "", value |-> v, files |-> files]
Raised(exception, files) == [raised |-> exception, value |-> <<>>, files |-> files]

\* with open(filename, 'w') as f: ... followed by return filename
WriteAndReturn(filename, holds, write) ==
    CASE write = "ok" -> Value(filename, {[name |-> filename, holds |-> holds]})
      [] write = "open raises" -> Raised("OSError", {})
      [] OTHER -> Raised("OSError", {[name |-> filename, holds |-> "partial"]})

\* the three branches on output_format
SaveResults(prefix, url, output_format, write) ==
    LET parts == Split(url, "/") IN
    IF Len(parts) < 3 THEN Raised("IndexError", {})
    ELSE LET domain == Replace(parts[3], <<".">>, <<"_">>) IN
         IF output_format = <<"h", "t", "m", "l">>
         THEN WriteAndReturn(Concat(<<prefix, <<"_">>, domain, <<"_">>, Timestamp, <<".", "h", "t", "m", "l">>>>),
                             "html", write)
         ELSE IF output_format = <<"s", "u", "m", "m", "a", "r", "y">>
         THEN WriteAndReturn(Concat(<<prefix, <<"_", "s", "u", "m", "m", "a", "r", "y", "_">>, domain, <<"_">>, Timestamp,
                                      <<".", "t", "x", "t">>>>),
                             "summary", write)
         ELSE WriteAndReturn(Concat(<<prefix, <<"_">>, domain, <<"_">>, Timestamp, <<".", "j", "s", "o", "n">>>>),
                             "json", write)

\* the try block of scrape_with_requests after the import
RequestsBody(url, output_format, env) ==
    IF env.get # "ok" \/ ~Contains(url, <<":", "/", "/">>) THEN Raised("RequestException", {})
    ELSE IF env.status >= 400 THEN Raised("HTTPError", {})
    ELSE IF env.parse # "ok" THEN Raised("Exception", {})
    ELSE SaveResults(<<"f", "a", "s", "t">>, url, output_format, env.write)

\* the try block of scrape_with_firecrawl after the import
FirecrawlBody(url, output_format, env) ==
    IF env.scrape_url # "ok" THEN Raised("Exception", {})
    ELSE IF env.success
    THEN SaveResults(<<"f", "i", "r", "e", "c", "r", "a", "w", "l">>, url, output_format, env.write)
    ELSE Value(<<>>, {})

\* the classes caught by "except Exception"
ExceptionClasses == {"Exception", "RequestException", "HTTPError", "OSError", "IndexError"}

\* a scraper whose handlers catch request errors only
scrape_with_requests_narrow_except(url, output_format, env) ==
    IF ~env.bs4 THEN Value(<<>>, {})
    ELSE LET body == RequestsBody(url, output_format, env) IN
         IF body.raised \in {"RequestException", "HTTPError"} THEN Value(<<>>, body.files)
         ELSE body

\* scrape_with_requests(url, output_format)
scrape_with_requests(url, output_format, env) ==
    IF ~env.bs4 THEN Value(<<>>, {})
    ELSE LET body == RequestsBody(url, output_format, env) IN
         IF body.raised \in {"RequestException", "HTTPError"} THEN Value(<<>>, body.files)
         ELSE IF body.raised \in ExceptionClasses THEN Value(<<>>, body.files)
         ELSE body

\* scrape_with_firecrawl(url, output_format)
scrape_with_firecrawl(url, output_format, env) ==
    IF ~env.firecrawl THEN Value(<<>>, {})
    ELSE LET body == FirecrawlBody(url, output_format, env) IN
         IF body.raised \in ExceptionClasses THEN Value(<<>>, body.files)
         ELSE body

\* the last call: which function, its arguments, what it met and how it ended
ScrIdle ==
    [fn |-> "", url |-> <<>>, output_format |-> <<>>,
     env |-> [write |-> "ok"], ended |-> Value(<<>>, {})]

ScrRequests ==
    /\ \E url \in ScrUrls, output_format \in ScrFormats, env \in RequestsEnvs :
         scr' = [fn |-> "scrape_with_requests", url |-> url, output_format |-> output_format,
                 env |-> env, ended |-> scrape_with_requests(url, output_format, env)]
    /\ UNCHANGED <<quick, smart, detect, hmc, tbl, spider, pipe, server, errh, proxy, dup, cli, cmp>>

ScrFirecrawl ==
    /\ \E url \in ScrUrls, output_format \in ScrFormats, env \in FirecrawlEnvs :
         scr' = [fn |-> "scrape_with_firecrawl", url |-> url, output_format |-> output_format,
                 env |-> env, ended |-> scrape_with_firecrawl(url, output_format, env)]
    /\ UNCHANGED <<quick, smart, detect, hmc, tbl, spider, pipe, server, errh, proxy, dup, cli, cmp>>

ScrNext == ScrRequests \/ ScrFirecrawl

(***************************************************************************)
(* generic_financial_scraper.GenericFinancialScraper._is_financial_table   *)
(***************************************************************************)
\* financial_header_keywords of _is_financial_table
generic_financial_header_keywords ==
    << <<"d", "i", "v", "i", "d", "e", "n", "d">>, <<"y", "i", "e", "l", "d">>, <<"p", "r", "i", "c", "e">>, <<"d", "a", "t", "e">>, <<"a", "m", "o", "u", "n", "t">>, <<"p", "a", "y", "m", "e", "n", "t">>,
       <<"e", "x", "-", "d", "a", "t", "e">>, <<"r", "e", "c", "o", "r", "d">>, <<"e", "a", "r", "n", "i", "n", "g", "s">>, <<"r", "e", "v", "e", "n", "u", "e">>, <<"p", "r", "o", "f", "i", "t">> >>

\* sum(1 for keyword in financial_header_keywords if keyword in headers_text)
generic_header_score(table_info) ==
    LET headers_text == Lower(Join(<<" ">>, table_info.headers)) IN
    Cardinality({k \in 1..Len(generic_financial_header_keywords) :
                   Contains(headers_text, generic_financial_header_keywords[k])})

\* for row in table_info['rows'][:5]: ... row_score += 1, from row i on
RECURSIVE GenericRowLoop(_, _, _)
GenericRowLoop(rows, i, score) ==
    IF i > Len(rows) \/ i > 5 THEN score
    ELSE LET row_text == Lower(Join(<<" ">>, rows[i])) IN
         GenericRowLoop(rows, i + 1,
                        IF Contains(row_text, <<"$">>) \/ Contains(row_text, <<"%">>)
                        THEN score + 1 ELSE score)

\* a classifier that takes one row with a $ or % for enough
GenericFinancialScraper_is_financial_table_one_row(table_info) ==
    generic_header_score(table_info) >= 1 \/ GenericRowLoop(table_info.rows, 1, 0) >= 1

\* GenericFinancialScraper._is_financial_table
GenericFinancialScraper_is_financial_table(table_info) ==
    generic_header_score(table_info) >= 1 \/ GenericRowLoop(table_info.rows, 1, 0) >= 2

\* one table_info and the verdict of each classifier on it
CmpIdle ==
    [table_info |-> [headers |-> <<>>, rows |-> <<>>], called |-> FALSE,
     fast |-> FALSE, generic |-> FALSE]

CmpGiven ==
    cmp \in {[CmpIdle EXCEPT !.table_info = [headers |-> h, rows |-> r]] :
               h \in TableHeaders, r \in SeqsUpTo(TableRows, MaxRows)}

CmpCall ==
    /\ ~cmp.called
    /\ cmp' = [cmp EXCEPT !.called = TRUE,
                          !.fast = is_financial_table_fast(cmp.table_info),
                          !.generic = GenericFinancialScraper_is_financial_table(cmp.table_info)]
    /\ UNCHANGED <<quick, smart, detect, hmc, tbl, spider, pipe, server, errh, proxy, dup, cli, scr>>

CmpNext == CmpCall

(***************************************************************************)
(* Specifications.  The scripts are separate programs: each specification  *)
(* runs one of them, the others staying as they start.                     *)
(***************************************************************************)
\* every program but the named one is as it starts
IdleBut(name) ==
    /\ name = "quick" \/ quick = QuickIdle
    /\ name = "smart" \/ smart = SmartIdle
    /\ name = "detect" \/ detect = DetectIdle
    /\ name = "hmc" \/ hmc = HmcIdle
    /\ name = "tbl" \/ tbl = TblIdle
    /\ name = "spider" \/ spider = SpiderIdle
    /\ name = "pipe" \/ pipe = PipeIdle
    /\ name = "server" \/ server = ServerIdle
    /\ name = "errh" \/ errh = ErrhIdle
    /\ name = "proxy" \/ proxy = ProxyIdle
    /\ name = "dup" \/ dup = DupIdle
    /\ name = "cli" \/ cli = CliIdle
    /\ name = "scr" \/ scr = ScrIdle
    /\ name = "cmp" \/ cmp = CmpIdle

AllIdle == IdleBut("")

QuickInit == AllIdle

QuickSpec == QuickInit /\ [][QuickNext]_vars

SmartInit == AllIdle

SmartSpec == SmartInit /\ [][SmartNext]_vars

SpiderInit == AllIdle

SpiderSpec == SpiderInit /\ [][SpiderNext]_vars

DetectInit == DetectGiven /\ IdleBut("detect")

DetectNext == DetectCall

DetectSpec == DetectInit /\ [][DetectNext]_vars

HmcInit == HmcGiven /\ IdleBut("hmc")

HmcNext == HmcCall

HmcSpec == HmcInit /\ [][HmcNext]_vars

TblInit == TblGiven /\ IdleBut("tbl")

TblNext == TblCall

TblSpec == TblInit /\ [][TblNext]_vars

PipeInit == AllIdle

PipeSpec == PipeInit /\ [][PipeNext]_vars

ServerInit == AllIdle

ServerSpec == ServerInit /\ [][ServerNext]_vars

ErrhInit == ErrhGiven /\ IdleBut("errh")

ErrhSpec == ErrhInit /\ [][ErrhNext]_vars

ProxyInit == AllIdle

ProxySpec == ProxyInit /\ [][ProxyNext]_vars

DupInit == AllIdle

DupSpec == DupInit /\ [][DupNext]_vars

CliInit == AllIdle

CliSpec == CliInit /\ [][CliNext]_vars

ScrInit == AllIdle

ScrSpec == ScrInit /\ [][ScrNext]_vars

CmpInit == CmpGiven /\ IdleBut("cmp")

CmpSpec == CmpInit /\ [][CmpNext]_vars

\* any one of the programs
Init ==
    \/ AllIdle \/ DetectInit \/ HmcInit \/ TblInit \/ ErrhInit \/ CmpInit

Next ==
    \/ QuickNext /\ IdleBut("quick")
    \/ SmartNext /\ IdleBut("smart")
    \/ SpiderNext /\ IdleBut("spider")
    \/ DetectNext /\ IdleBut("detect")
    \/ HmcNext /\ IdleBut("hmc")
    \/ TblNext /\ IdleBut("tbl")
    \/ PipeNext /\ IdleBut("pipe")
    \/ ServerNext /\ IdleBut("server")
    \/ ErrhNext /\ IdleBut("errh")
    \/ ProxyNext /\ IdleBut("proxy")
    \/ DupNext /\ IdleBut("dup")
    \/ CliNext /\ IdleBut("cli")
    \/ ScrNext /\ IdleBut("scr")
    \/ CmpNext /\ IdleBut("cmp")

Spec == Init /\ [][Next]_vars

(***************************************************************************)
(* Properties                                                              *)
(***************************************************************************)
\* how often x occurs in a sequence
Count(seq, x) == Cardinality({i \in 1..Len(seq) : seq[i] = x})

\* C1: within one call of quick_scrape each of the two fetches is made at
\* most once; the browser fetch is made only after the fast fetch, and only
\* when the fast fetch failed or brought content that has_meaningful_content
\* does not accept; after a fast fetch with accepted content the browser
\* fetch is never made.
C1_BrowserOnlyAsFallback ==
    LET t == quick.trace
        accepted == quick.fast.success /\ has_meaningful_content(quick.fast.html)
    IN  /\ Count(t, "get_html_fast") <= 1
        /\ Count(t, "get_html_selenium") <= 1
        /\ \A i \in 1..Len(t) :
             t[i] = "get_html_selenium"
               => (\E j \in 1..(i - 1) : t[j] = "get_html_fast") /\ ~accepted
        /\ Count(t, "get_html_fast") = 1 /\ accepted => Count(t, "get_html_selenium") = 0

\* a call that fell back to the browser after a fast fetch that succeeded
\* with content
C1_Witness ==
    /\ quick.pc = "done"
    /\ quick.trace = <<"get_html_fast", "has_meaningful_content", "get_html_selenium">>
    /\ quick.fast.success /\ Truthy(quick.fast.html)

\* C2: a call of smart_scrape in which no write failed ends with 'fast'
\* exactly when the fast fetch brought non-empty HTML that
\* detect_financial_data scores above 20; otherwise scrape_url has run
\* exactly once and the method is 'selenium' when its result is successful
\* and 'failed' when not; html_content and filename are None exactly with
\* 'failed'; and a file is written only with 'fast' and 'selenium', none
\* before the call ends.
C2_SmartScrapeOutcome ==
    LET fastGood == /\ Truthy(smart.fast.html) /\ smart.fast.success
                    /\ detect_financial_data(smart.fast.html.page).total_score > 20
        method == smart.ret[2]
    IN  /\ smart.pc # "done" /\ ~smart.write_failed => smart.files = <<>>
        /\ smart.pc = "done" /\ ~smart.write_failed =>
             /\ Len(smart.ret) = 4
             /\ method = "fast" <=> fastGood
             /\ fastGood => Count(smart.trace, "scrape_url") = 0
             /\ ~fastGood =>
                  /\ Count(smart.trace, "scrape_url") = 1
                  /\ method = IF smart.result.success THEN "selenium" ELSE "failed"
             /\ smart.ret[1].isNone <=> method = "failed"
             /\ smart.ret[4].isNone <=> method = "failed"
             /\ smart.files = IF method = "failed" THEN <<>> ELSE <<smart.ret[4].name>>

\* a call that ends with 'selenium' after a fast fetch scored exactly 20
C2_Witness ==
    /\ smart.pc = "done" /\ ~smart.write_failed
    /\ smart.fast.success /\ smart.score.total_score = 20
    /\ smart.ret[2] = "selenium"

\* C3: when quick_scrape has returned, it has returned a triple whose
\* method is 'fast', 'selenium' or 'failed'; the content is None exactly
\* with 'failed'; 'fast' comes only with the HTML of a successful fast fetch
\* that has_meaningful_content accepted; 'failed' comes only after the
\* browser fetch was made and brought no content; and a call that has not
\* returned can take its next step.
C3_QuickScrapeResult ==
    /\ quick.pc \in {"fast", "check", "selenium"} => ENABLED QuickNext /\ quick.ret = <<>>
    /\ quick.pc = "done" =>
         /\ Len(quick.ret) = 3
         /\ quick.ret[2] \in {"fast", "selenium", "failed"}
         /\ quick.ret[1].isNone <=> quick.ret[2] = "failed"
         /\ quick.ret[2] = "fast" =>
              /\ quick.ret[1] = quick.fast.html
              /\ quick.fast.success /\ Truthy(quick.fast.html)
              /\ Count(quick.trace, "has_meaningful_content") = 1
              /\ has_meaningful_content(quick.ret[1])
         /\ quick.ret[2] = "failed" =>
              /\ Count(quick.trace, "get_html_selenium") = 1
              /\ ~Truthy(quick.sel.html)

\* a call that failed although the browser session itself succeeded, after
\* a fast fetch whose content was not accepted
C3_Witness ==
    /\ quick.pc = "done" /\ quick.ret[2] = "failed"
    /\ quick.sel.success /\ quick.fast.success /\ Truthy(quick.fast.html)

\* C4: the score of detect_financial_data is 2*dividend_data +
\* 5*financial_tables + 3*price_data + total_elements, dividend_data being
\* three times the matches of 'dividend' plus the matches of the other six
\* patterns; has_data holds exactly when the score exceeds 20; four tables
\* alone score 20 and are not enough, five tables alone are.
C4_DetectScore ==
    LET r == detect.result
        text == Lower(GetText(detect.page))
        n(i) == FindallCount(dividend_patterns[i].re, text)
        tablesOnly == \A i \in 1..Len(detect.page) : detect.page[i] = TableElem
    IN  detect.called =>
          /\ Len(dividend_patterns) = 7
          /\ dividend_patterns[2].src = <<"d", "i", "v", "i", "d", "e", "n", "d">>
          /\ r.indicators.dividend_data = 3 * n(2) + n(1) + n(3) + n(4) + n(5) + n(6) + n(7)
          /\ r.indicators.financial_tables
               = Count([i \in 1..Len(detect.page) |-> detect.page[i].tag], <<"t", "a", "b", "l", "e">>)
          /\ r.total_score = 2 * r.indicators.dividend_data + 5 * r.indicators.financial_tables
                               + 3 * r.indicators.price_data + r.indicators.total_elements
          /\ r.has_data <=> r.total_score > 20
          /\ tablesOnly /\ Len(detect.page) = 4 => r.total_score = 20 /\ ~r.has_data
          /\ tablesOnly /\ Len(detect.page) = 5 => r.has_data

\* a document that scores exactly 20 out of keyword matches, 'dividend'
\* among them
C4_Witness ==
    /\ detect.called
    /\ detect.result.total_score = 20
    /\ detect.result.indicators.dividend_data = 10
    /\ ~detect.result.has_data

\* the element is a td or th cell of the parsed document that holds a digit
CellWithNumber(e) ==
    /\ ~e.comment /\ e.tag \in {<<"t", "d">>, <<"t", "h">>}
    /\ \E i \in 1..Len(e.text) : e.text[i] \in Digits

\* C5: has_meaningful_content returns True only for a document in which at
\* least one table cell (td or th) holds a dividend value (here: any number
\* at all), and False for None and for the empty string.
C5_MeaningfulOnlyWithValueCells ==
    hmc.called =>
      /\ hmc.result => \E i \in 1..Len(hmc.html.page) : CellWithNumber(hmc.html.page[i])
      /\ ~Truthy(hmc.html) => ~hmc.result

\* C6: is_financial_table_fast returns True exactly when one of its eleven
\* keywords occurs in the lower-cased, space-joined headers or at least two
\* of the first five rows hold '$' or '%'; the rows after the fifth do not
\* change the verdict; without headers and with fewer than two rows the
\* table is not financial.
C6_FinancialTable ==
    LET ti == tbl.table_info
        headers_text == Lower(Join(<<" ">>, ti.headers))
        marked(row) == \E c \in 1..Len(row) : \E i \in 1..Len(row[c]) : row[c][i] \in {"$", "%"}
        first == {r \in 1..Len(ti.rows) : r <= 5}
    IN  tbl.called =>
          /\ Len(financial_header_keywords) = 11
          /\ tbl.result <=>
               \/ \E k \in 1..11 : Contains(headers_text, financial_header_keywords[k])
               \/ Cardinality({r \in first : marked(ti.rows[r])}) >= 2
          /\ tbl.result = is_financial_table_fast([ti EXCEPT !.rows = SubSeq(ti.rows, 1, Cardinality(first))])
          /\ ti.headers = <<>> /\ Len(ti.rows) < 2 => ~tbl.result

\* a table of more than five rows that is not financial although two of
\* its rows hold '$' or '%': only one of them is among the first five
C6_Witness ==
    /\ tbl.called /\ ~tbl.result
    /\ Len(tbl.table_info.rows) > 5
    /\ Cardinality({r \in 1..Len(tbl.table_info.rows) :
                      Contains(Join(<<" ">>, tbl.table_info.rows[r]), <<"$">>)}) >= 2

\* the item of the last parse
Item == spider.yielded[1]

\* C7: for an HTML response, every href that begins with http:// or
\* https:// is reported in external_links (the full item being yielded).
C7_AbsoluteLinksAreExternal ==
    (/\ spider.parsed /\ ~is_json(spider.response)
     /\ spider.self.output_format # <<"h", "t", "m", "l">> /\ Len(spider.yielded) = 1)
      => \A i \in 1..Len(spider.response.body.hrefs) :
           IsHttpLink(spider.response.body.hrefs[i])
             => Count(Item["external_links"], spider.response.body.hrefs[i]) > 0

RequiredFields ==
    {"url", "status", "response_headers", "title", "text_content", "html_content", "links",
     "internal_links", "external_links", "scraped_at", "user_agent", "custom_data"}

\* C8: parse yields exactly one item for every response; with
\* output_format 'html' its keys are html_content, url and title and no
\* other; otherwise it holds every required field, on the HTML and on the
\* JSON branch.
C8_OneItemWithItsKeys ==
    spider.parsed =>
      /\ Len(spider.yielded) = 1
      /\ IF spider.self.output_format = <<"h", "t", "m", "l">>
         THEN DOMAIN Item = {"html_content", "url", "title"}
         ELSE RequiredFields \subseteq DOMAIN Item

\* the full item of a response taken for JSON whose body does not parse
C8_Witness ==
    /\ spider.parsed /\ is_json(spider.response) /\ ~spider.response.body.json.ok
    /\ spider.self.output_format = <<"j", "s", "o", "n">>
    /\ Len(spider.yielded) = 1 /\ RequiredFields \subseteq DOMAIN Item

\* the defaults of a spider constructed without a url
SpiderDefaults(self) ==
    /\ self.start_urls = <<<<"h", "t", "t", "p", "s", ":", "/", "/", "e", "x", "a", "m", "p", "l", "e", ".", "c", "o", "m">>>>
    /\ self.allowed_domains = <<<<"e", "x", "a", "m", "p", "l", "e", ".", "c", "o", "m">>>>

\* output_format is the lower-cased format argument, 'json' when not given
SpiderFormatLowered ==
    spider.self.output_format
      = IF spider.format.isNone THEN <<"j", "s", "o", "n">> ELSE Lower(spider.format.name)

\* C9 as stated: UniversalSpider(url=u) has start_urls [u] and
\* allowed_domains [netloc of u] for every u that is given; without a url
\* it has the defaults; output_format is the lower-cased format.
C9_AsStated ==
    spider.constructed =>
      /\ ~spider.url.isNone =>
           /\ spider.self.start_urls = <<spider.url.name>>
           /\ spider.self.allowed_domains = <<UrlNetloc(spider.url.name)>>
      /\ spider.url.isNone => SpiderDefaults(spider.self)
      /\ SpiderFormatLowered

\* C9: UniversalSpider(url=u) has start_urls [u] and allowed_domains
\* [netloc of u] for every u that is not empty (example.org for
\* https://example.org/path/to/page, the empty netloc for a url without a
\* scheme); without a url, or with the empty string for it, it has the
\* defaults; output_format is the lower-cased format, 'json' by default.
C9_SpiderInit ==
    spider.constructed =>
      /\ (~spider.url.isNone /\ spider.url.name # <<>>) =>
           /\ spider.self.start_urls = <<spider.url.name>>
           /\ spider.self.allowed_domains = <<UrlNetloc(spider.url.name)>>
      /\ spider.url = Name(<<"h", "t", "t", "p", "s", ":", "/", "/", "e", "x", "a", "m", "p", "l", "e", ".", "o", "r", "g", "/", "p", "a", "t", "h", "/", "t", "o", "/", "p", "a", "g", "e">>)
           => spider.self.allowed_domains = <<<<"e", "x", "a", "m", "p", "l", "e", ".", "o", "r", "g">>>>
      /\ spider.url = Name(<<"h", "t", "t", "p", ":", "/", "/", "s", "u", "b", "d", "o", "m", "a", "i", "n", ".", "e", "x", "a", "m", "p", "l", "e", ".", "c", "o", "m">>)
           => spider.self.allowed_domains = <<<<"s", "u", "b", "d", "o", "m", "a", "i", "n", ".", "e", "x", "a", "m", "p", "l", "e", ".", "c", "o", "m">>>>
      /\ spider.url = Name(<<"e", "x", "a", "m", "p", "l", "e", ".", "c", "o", "m", "/", "p", "a", "g", "e">>) => spider.self.allowed_domains = << <<>> >>
      /\ (spider.url.isNone \/ spider.url.name = <<>>) => SpiderDefaults(spider.self)
      /\ SpiderFormatLowered

\* a spider constructed with a url and the format 'HTML'
C9_Witness ==
    /\ spider.constructed
    /\ spider.url = Name(<<"h", "t", "t", "p", "s", ":", "/", "/", "e", "x", "a", "m", "p", "l", "e", ".", "o", "r", "g", "/", "p", "a", "t", "h", "/", "t", "o", "/", "p", "a", "g", "e">>)
    /\ spider.format = Name(<<"H", "T", "M", "L">>)
    /\ spider.self.output_format = <<"h", "t", "m", "l">>

\* the Content-Type header as it was sent
RawContentType(response) == HeaderGet(response.headers, <<"C", "o", "n", "t", "e", "n", "t", "-", "T", "y", "p", "e">>, <<>>)

\* parse took the JSON branch: the title is one of the API response titles
TreatedAsJson(item) ==
    /\ ~item["title"].isNone
    /\ \/ StartsWith(item["title"].name, <<"J", "S", "O", "N", " ", "A", "P", "I", " ", "R", "e", "s", "p", "o", "n", "s", "e", " ", "f", "r", "o", "m", " ">>)
       \/ StartsWith(item["title"].name, <<"A", "P", "I", " ", "R", "e", "s", "p", "o", "n", "s", "e", " ", "f", "r", "o", "m", " ">>)

ParseFailureData == JDict(<< <<"error", JStr(<<"F", "a", "i", "l", "e", "d", " ", "t", "o", " ", "p", "a", "r", "s", "e", " ", "J", "S", "O", "N">>)>> >>)

\* what the item of a response taken for JSON holds
JsonItemData(item, body) ==
    /\ "custom_data" \in DOMAIN item
    /\ body.json.ok => item["custom_data"] = body.json.value
    /\ ~body.json.ok =>
         /\ item["custom_data"] = ParseFailureData
         /\ item["links"] = <<>>
         /\ item["internal_links"] = <<>>
         /\ item["external_links"] = <<>>

\* C10 as stated: a response is treated as JSON exactly when its
\* Content-Type (in any case of letters) contains 'application/json' or its
\* URL ends with '.json'; the item of a parseable one has the parsed value
\* as custom_data, the item of an unparseable one has the error as
\* custom_data and empty links, internal_links and external_links; exactly
\* one item is yielded either way.
C10_AsStated ==
    LET r == spider.response
        saysJson == Contains(Lower(RawContentType(r)), <<"a", "p", "p", "l", "i", "c", "a", "t", "i", "o", "n", "/", "j", "s", "o", "n">>)
                      \/ EndsWith(r.url, <<".", "j", "s", "o", "n">>)
    IN  spider.parsed =>
          /\ Len(spider.yielded) = 1
          /\ TreatedAsJson(Item) <=> saysJson
          /\ saysJson => JsonItemData(Item, r.body)

\* C10: a response is treated as JSON exactly when its Content-Type (in
\* any case of letters) contains 'application/json' or its URL ends with
\* '.json';
\* exactly one item is yielded, parseable or not; and when output_format is
\* not 'html', the item of a parseable one has the parsed value as
\* custom_data and the item of an unparseable one has the error as
\* custom_data and empty links, internal_links and external_links.
C10_JsonResponses ==
    LET r == spider.response
        saysJson == Contains(Lower(RawContentType(r)), <<"a", "p", "p", "l", "i", "c", "a", "t", "i", "o", "n", "/", "j", "s", "o", "n">>)
                      \/ EndsWith(r.url, <<".", "j", "s", "o", "n">>)
    IN  spider.parsed =>
          /\ Len(spider.yielded) = 1
          /\ TreatedAsJson(Item) <=> saysJson
          /\ saysJson /\ spider.self.output_format # <<"h", "t", "m", "l">> => JsonItemData(Item, r.body)

\* the full item of a response whose Content-Type says JSON and whose body
\* does not parse
C10_Witness ==
    /\ spider.parsed /\ spider.self.output_format = <<"j", "s", "o", "n">>
    /\ Contains(RawContentType(spider.response), <<"a", "p", "p", "l", "i", "c", "a", "t", "i", "o", "n", "/", "j", "s", "o", "n">>)
    /\ ~spider.response.body.json.ok
    /\ Len(spider.yielded) = 1
    /\ Item["custom_data"] = ParseFailureData

\* C11: when the spider closes, the buffered items of a spider whose
\* format is not 'html' (full items) are exported in full as JSON, the
\* items of a spider of the 'html' format are exported as HTML content, and
\* nothing is exported when no item was buffered.
C11_ExportFollowsFormat ==
    pipe.closed =>
      /\ pipe.items = <<>> => pipe.exported = NoExport
      /\ pipe.items # <<>> /\ pipe.spider.output_format # <<"h", "t", "m", "l">>
           => pipe.exported = export_json(pipe.items)
      /\ pipe.items # <<>> /\ pipe.spider.output_format = <<"h", "t", "m", "l">>
           => pipe.exported.kind = "html"

\* the request is a GET, or a POST whose body, when it is a JSON object,
\* has strings for url and mode
StringParameters(request) ==
    \/ request.command = "GET"
    \/ /\ request.command = "POST" /\ request.content_length # "malformed"
       /\ request.content_length = "positive" /\ request.body.utf8 /\ request.body.json.ok
            => /\ request.body.json.value.type = "dict"
               /\ JGet(request.body.json.value, "url", JStr(<<>>)).type = "str"
               /\ JGet(request.body.json.value, "mode", JStr(<<>>)).type = "str"

\* the url of the request is missing or blank
UrlBlank(request) ==
    IF request.command = "GET"
    THEN request.query.url.isNone \/ Strip(request.query.url.name) = <<>>
    ELSE \/ request.content_length # "positive"
         \/ /\ request.body.utf8 /\ request.body.json.ok
            /\ request.body.json.value.type = "dict"
            /\ Strip(JGet(request.body.json.value, "url", JStr(<<>>)).val) = <<>>

\* the body of the POST is not valid JSON
BodyInvalid(request) ==
    /\ request.command = "POST" /\ request.content_length = "positive"
    /\ ~request.body.utf8 \/ ~request.body.json.ok

\* C12: a request with include_content false whose scrape succeeded (the
\* subprocess ran and exited with 0) is answered with status 200, a
\* success response, and not with an error status.
C12_SummaryIsSuccess ==
    (/\ server.pc = "done" /\ Len(server.cmds) = 1
     /\ ~server.include_content /\ server.result.returncode = 0)
      => server.response.status = 200

\* C13: a request with string parameters is answered 400, no subprocess
\* started, when its url is missing or blank or its POST body is not valid
\* JSON; otherwise the subprocess is run exactly once and the answer is 200
\* with the content as text/plain exactly when the exit code is 0,
\* include_content is truthy and the content parsed from the output is not
\* empty, and 500 with a JSON body in every other case.
C13_ScrapeResponses ==
    LET request == server.request
        content == IF server.result.stdout.start_marker /\ server.result.stdout.end_marker
                      /\ server.result.stdout.json.ok
                   THEN JGet(server.result.stdout.json.value, "content", JStr(<<>>)).val
                   ELSE <<>>
        good == server.result.returncode = 0 /\ server.include_content /\ content # <<>>
    IN  (server.pc = "done" /\ StringParameters(request)) =>
          IF UrlBlank(request) \/ BodyInvalid(request)
          THEN server.response.status = 400 /\ server.cmds = <<>>
          ELSE /\ Len(server.cmds) = 1
               /\ IF good
                  THEN /\ server.response.status = 200
                       /\ server.response.content_type = <<"t", "e", "x", "t", "/", "p", "l", "a", "i", "n", ";", " ", "c", "h", "a", "r", "s", "e", "t", "=", "u", "t", "f", "-", "8">>
                       /\ server.response.body.content = content
                  ELSE /\ server.response.status = 500
                       /\ server.response.content_type = <<"a", "p", "p", "l", "i", "c", "a", "t", "i", "o", "n", "/", "j", "s", "o", "n">>
                       /\ server.response.body.kind = "json"

\* C14: handle_http_error returns False exactly for the status codes 403,
\* 404 and 429; it returns True for every status code of 500 or above and
\* for every other status code.
C14_ContinueUnlessBlocked ==
    errh.called =>
      /\ ~errh.result.continue <=> errh.response.status \in {403, 404, 429}
      /\ errh.response.status >= 500 => errh.result.continue
      /\ errh.response.status \notin {403, 404, 429} => errh.result.continue

\* the handler has told the caller not to continue after a 404
C14_Witness ==
    errh.called /\ errh.response.status = 404 /\ ~errh.result.continue

\* C15: a proxy that was given to mark_proxy_failed is not working any
\* more: working_proxies and failed_proxies have no proxy in common, no
\* marked proxy is in working_proxies, and get_random_proxy does not return
\* a marked proxy, whatever calls were made since and whatever the
\* proxy_list.
C15_FailedProxyStaysOut ==
    /\ \A p \in proxy.self.failed_proxies : ~InSeq(p, proxy.self.working_proxies)
    /\ \A p \in proxy.marked : ~InSeq(p, proxy.self.working_proxies)
    /\ (proxy.last = "get_random_proxy" /\ ~proxy.returned.isNone)
         => proxy.returned.name \notin proxy.marked

UrlOf(item) == ItemGet(item, "url", JNull)

PassedOn(i) == dup.outcome[i].raised = "" /\ dup.outcome[i].returned = JDict(dup.given[i])

\* C16: an item given to DuplicateFilterPipeline.process_item is passed on
\* exactly when no earlier item had its url, and is rejected with DropItem
\* otherwise; each url is passed on exactly once; seen_urls is the set of
\* the urls of the items processed so far.
C16_DuplicateFilter ==
    /\ Len(dup.outcome) = Len(dup.given)
    /\ \A i \in 1..Len(dup.given) :
         /\ PassedOn(i) <=> \A j \in 1..(i - 1) : UrlOf(dup.given[j]) # UrlOf(dup.given[i])
         /\ ~PassedOn(i) => dup.outcome[i].raised = "DropItem"
    /\ \A i \in 1..Len(dup.given) :
         Cardinality({j \in 1..Len(dup.given) :
                        PassedOn(j) /\ UrlOf(dup.given[j]) = UrlOf(dup.given[i])}) = 1
    /\ dup.self.seen_urls = {UrlOf(dup.given[i]) : i \in 1..Len(dup.given)}

\* a repeated url was rejected, an item without url passed, and a second
\* item without url was rejected
C16_Witness ==
    \E i, j, k, l \in 1..Len(dup.given) :
       /\ i < j /\ UrlOf(dup.given[i]) = UrlOf(dup.given[j]) /\ UrlOf(dup.given[i]) # JNull
       /\ dup.given[i] # dup.given[j]
       /\ PassedOn(i) /\ dup.outcome[j].raised = "DropItem"
       /\ k < l /\ UrlOf(dup.given[k]) = JNull /\ UrlOf(dup.given[l]) = JNull
       /\ PassedOn(k) /\ dup.outcome[l].raised = "DropItem"

\* C17: when main has run without --return-content and quick_scrape
\* returned no content, the process has written an error-details file and
\* ended with exit status 1.
C17_ErrorFileThenExit1 ==
    (/\ cli.pc = "done"
     /\ Len(cli.argv) >= 2
     /\ ~InSeq(ReturnContentFlag, cli.argv)
     /\ ~Truthy(cli.ret[1]))
      => /\ \E f \in cli.ended.files :
              EndsWith(f.name, <<"_", "e", "r", "r", "o", "r", ".", "m", "d">>) /\ f.holds = "error_summary"
         /\ cli.ended.status = 1

\* the fetch, the parsing and the file write of the last call all succeeded
ScrAllSucceeded ==
    /\ Len(Split(scr.url, "/")) >= 3
    /\ scr.env.write = "ok"
    /\ scr.fn = "scrape_with_requests"
         => /\ scr.env.bs4 /\ scr.env.get = "ok" /\ Contains(scr.url, <<":", "/", "/">>)
            /\ scr.env.status < 400 /\ scr.env.parse = "ok"
    /\ scr.fn = "scrape_with_firecrawl"
         => scr.env.firecrawl /\ scr.env.scrape_url = "ok" /\ scr.env.success

\* the format the last call was asked for, anything but html and summary
\* being json
ScrFormatAsked ==
    IF scr.output_format \in {<<"h", "t", "m", "l">>, <<"s", "u", "m", "m", "a", "r", "y">>}
    THEN scr.output_format ELSE <<"j", "s", "o", "n">>

\* C18: scrape_with_requests and scrape_with_firecrawl never raise; they
\* return the non-empty name of the file they wrote when the fetch, the
\* parsing and the write all succeeded and the empty string otherwise; the
\* file is an html file for 'html', a summary for 'summary' and a json file
\* for every other output_format.
C18_FilenameIffAllSucceeded ==
    scr.fn # ""
      => /\ scr.ended.raised = ""
         /\ scr.ended.value # <<>> <=> ScrAllSucceeded
         /\ ScrAllSucceeded
              => /\ scr.ended.files
                      = {[name |-> scr.ended.value,
                          holds |-> CASE ScrFormatAsked = <<"h", "t", "m", "l">> -> "html"
                                      [] ScrFormatAsked = <<"s", "u", "m", "m", "a", "r", "y">> -> "summary"
                                      [] OTHER -> "json"]}
                 /\ EndsWith(scr.ended.value,
                             CASE ScrFormatAsked = <<"h", "t", "m", "l">> -> <<".", "h", "t", "m", "l">>
                               [] ScrFormatAsked = <<"s", "u", "m", "m", "a", "r", "y">> -> <<".", "t", "x", "t">>
                               [] OTHER -> <<".", "j", "s", "o", "n">>)
         /\ ~ScrAllSucceeded => scr.ended.value = <<>>

\* a call with an unknown format that wrote a json file
C18_Witness ==
    /\ scr.fn = "scrape_with_requests"
    /\ scr.output_format = <<"x", "m", "l">>
    /\ scr.ended.value # <<>>
    /\ \E f \in scr.ended.files : f.holds = "json"

\* C19: is_financial_table_fast and GenericFinancialScraper._is_financial_table
\* give the same verdict on every table_info.
C19_ClassifiersAgree ==
    cmp.called => (cmp.fast <=> cmp.generic)

\* both accept a table with no keyword in its headers on the strength of
\* two of its first rows, and a table with more than five rows was judged
C19_Witness ==
    /\ cmp.called /\ cmp.fast /\ cmp.generic
    /\ header_score(cmp.table_info) = 0
    /\ Len(cmp.table_info.rows) > 5

====
